---- MODULE Spec2Model ----
(***************************************************************************)
(* A model of mici/matrices.py: the structured matrix classes, their       *)
(* dimension-checked composition, scalar arithmetic, transposes, inverses  *)
(* and memo caches, and the Woodbury low-rank update family.               *)
(*                                                                         *)
(* Numbers are exact rationals <<n, d>> (d > 0, lowest terms); dense       *)
(* arrays are tuples of rows.  log|x| is carried by |x| itself, so a sum   *)
(* of logarithms is the product of the absolute values.                    *)
(***************************************************************************)
EXTENDS Integers, Sequences, FiniteSets, TLC

VARIABLES lrM, lrOut, lrSteps, heap, ev, nops, budget

vars == <<lrM, lrOut, lrSteps, heap, ev, nops, budget>>
lrVars == <<lrM, lrOut, lrSteps>>

(***************************************************************************)
(* Bounds of the model.                                                    *)
(***************************************************************************)
MaxLRSteps == 1
MaxStructOps == 3
MaxComposeOps == 2
MaxMatrixOps == 1

(***************************************************************************)
(* Optional values: Python's None and a present value.                     *)
(***************************************************************************)
None == <<>>
Some(v) == <<v>>
IsNone(o) == Len(o) = 0
Get(o) == o[1]

(***************************************************************************)
(* Exact rational arithmetic standing for the float arithmetic of numpy.   *)
(***************************************************************************)
Abs(i) == IF i < 0 THEN 0 - i ELSE i

RECURSIVE GCD(_, _)
GCD(a, b) == IF b = 0 THEN a ELSE GCD(b, a % b)

\* a float as a fraction in lowest terms; nan is 0/0 and propagates through
\* the arithmetic, as it does in IEEE arithmetic
NaN == <<0, 0>>
Norm(n, d) ==
    IF n = 0 /\ d = 0 THEN NaN
    ELSE LET g == GCD(Abs(n), Abs(d))
             s == IF d < 0 THEN 0 - 1 ELSE 1
         IN  <<(s * n) \div g, (s * d) \div g>>

Q(i) == <<i, 1>>
RAdd(a, b) == Norm(a[1] * b[2] + b[1] * a[2], a[2] * b[2])
RSub(a, b) == Norm(a[1] * b[2] - b[1] * a[2], a[2] * b[2])
RMul(a, b) == Norm(a[1] * b[1], a[2] * b[2])
RDiv(a, b) == Norm(a[1] * b[2], a[2] * b[1])
RNeg(a) == <<0 - a[1], a[2]>>
RAbs(a) == <<Abs(a[1]), a[2]>>
\* a == 0, a > 0, a <= 0: each of them false of nan
RIsZero(a) == a[1] = 0 /\ a[2] # 0
RPos(a) == a[1] > 0
RLeqZero(a) == a[1] <= 0 /\ a[2] # 0

\* np.sign of a nonzero scalar
RSign(a) == IF a[1] > 0 THEN 1 ELSE IF a[1] < 0 THEN 0 - 1 ELSE 0

\* integer square root, exact on the perfect squares the model feeds it
ISqrt(n) == CHOOSE r \in 0..n : r * r <= n /\ (r + 1) * (r + 1) > n
IsSquareInt(n) == n >= 0 /\ ISqrt(n) * ISqrt(n) = n
RIsSquare(a) == IsSquareInt(a[1]) /\ IsSquareInt(a[2])
RSqrt(a) == <<ISqrt(a[1]), ISqrt(a[2])>>

(***************************************************************************)
(* Dense arrays: a tuple of rows, each a tuple of rationals.               *)
(***************************************************************************)
Rows(A) == Len(A)
Cols(A) == Len(A[1])
Mat(n, m, f(_, _)) == [i \in 1..n |-> [j \in 1..m |-> f(i, j)]]

RECURSIVE RSum(_, _, _)
RSum(f(_), lo, hi) == IF lo > hi THEN Q(0) ELSE RAdd(f(lo), RSum(f, lo + 1, hi))

MatMul(A, B) ==
    LET e(i, j) == LET t(k) == RMul(A[i][k], B[k][j]) IN RSum(t, 1, Cols(A))
    IN  Mat(Rows(A), Cols(B), e)
MatAdd(A, B) == LET e(i, j) == RAdd(A[i][j], B[i][j]) IN Mat(Rows(A), Cols(A), e)
MatSub(A, B) == LET e(i, j) == RSub(A[i][j], B[i][j]) IN Mat(Rows(A), Cols(A), e)
MatScale(a, A) == LET e(i, j) == RMul(a, A[i][j]) IN Mat(Rows(A), Cols(A), e)
Transpose(A) == LET e(i, j) == A[j][i] IN Mat(Cols(A), Rows(A), e)
Identity(n) == LET e(i, j) == IF i = j THEN Q(1) ELSE Q(0) IN Mat(n, n, e)
Tril(A) == LET e(i, j) == IF j <= i THEN A[i][j] ELSE Q(0) IN Mat(Rows(A), Cols(A), e)
Triu(A) == LET e(i, j) == IF j >= i THEN A[i][j] ELSE Q(0) IN Mat(Rows(A), Cols(A), e)

\* determinant and inverse of the 1x1 and 2x2 arrays of the model
Det(A) ==
    IF Rows(A) = 1 THEN A[1][1]
    ELSE RSub(RMul(A[1][1], A[2][2]), RMul(A[1][2], A[2][1]))
MatInv(A) ==
    IF Rows(A) = 1 THEN <<<<RDiv(Q(1), A[1][1])>>>>
    ELSE LET d == Det(A)
         IN  <<<<RDiv(A[2][2], d), RDiv(RNeg(A[1][2]), d)>>,
               <<RDiv(RNeg(A[2][1]), d), RDiv(A[1][1], d)>>>>
Invertible(A) == ~RIsZero(Det(A))
IsSymmetric(A) == A = Transpose(A)

(***************************************************************************)
(* The numeric backend on the exact instances of the model: Cholesky       *)
(* (numpy.linalg.cholesky) and the principal square root                   *)
(* (scipy.linalg.sqrtm), defined where the result is rational.             *)
(***************************************************************************)
CholeskyExact(A) ==
    /\ RPos(A[1][1]) /\ RIsSquare(A[1][1])
    /\ Rows(A) = 2 =>
         LET l21 == RDiv(A[2][1], RSqrt(A[1][1]))
             d   == RSub(A[2][2], RMul(l21, l21))
         IN  RPos(d) /\ RIsSquare(d)
Cholesky(A) ==
    IF Rows(A) = 1 THEN <<<<RSqrt(A[1][1])>>>>
    ELSE LET l11 == RSqrt(A[1][1])
             l21 == RDiv(A[2][1], l11)
             l22 == RSqrt(RSub(A[2][2], RMul(l21, l21)))
         IN  <<<<l11, Q(0)>>, <<l21, l22>>>>
SqrtmExact(A) == Rows(A) = 1 /\ RPos(A[1][1]) /\ RIsSquare(A[1][1])
\* numpy.linalg.cholesky reads the lower triangle and succeeds exactly when
\* the pivots are positive
PositiveDefiniteArray(A) ==
    /\ RPos(A[1][1])
    /\ Rows(A) = 2 =>
         RPos(RSub(A[2][2], RDiv(RMul(A[2][1], A[2][1]), A[1][1])))
Sqrtm(A) == <<<<RSqrt(A[1][1])>>>>

(***************************************************************************)
(* The low-rank update family, on dense values: an instance holds the      *)
(* dense values of its left and right factors, its square (base) matrix    *)
(* and its inner matrix, the memoised capacitance matrix and the sign.     *)
(***************************************************************************)
SqLR == "SquareLowRankUpdateMatrix"
SymLR == "SymmetricLowRankUpdateMatrix"
PosDefLR == "PositiveDefiniteLowRankUpdateMatrix"

\* SquareLowRankUpdateMatrix.__init__ (the shape checks are its guard)
LowRankShapesOk(L, R, S, K) ==
    /\ Rows(S) = Rows(L)
    /\ Rows(S) = Cols(S)
    /\ Rows(R) = Cols(L) /\ Cols(R) = Rows(L)
    /\ Rows(K) = Cols(L) /\ Cols(K) = Cols(L)
SquareLowRankUpdateMatrix(cls, L, R, S, K, cap, sign) ==
    [cls |-> cls, left_factor_matrix |-> L, right_factor_matrix |-> R,
     square_matrix |-> S, inner_square_matrix |-> K,
     capacitance |-> cap, sign |-> sign]

\* SymmetricLowRankUpdateMatrix.__init__: the right factor is factor_matrix.T
SymmetricLowRankUpdateMatrix(cls, F, S, K, cap, sign) ==
    SquareLowRankUpdateMatrix(cls, F, Transpose(F), S, K, cap, sign)

\* _construct_array: square + sign * left @ (inner @ right)
LRArray(m) ==
    MatAdd(m.square_matrix,
           MatMul(MatScale(Q(m.sign), m.left_factor_matrix),
                  MatMul(m.inner_square_matrix, m.right_factor_matrix)))

\* the lazily computed capacitance: inner.inv + right @ (square.inv @ left)
ComputeCapacitance(m) ==
    MatAdd(MatInv(m.inner_square_matrix),
           MatMul(m.right_factor_matrix,
                  MatMul(MatInv(m.square_matrix), m.left_factor_matrix)))

\* the capacitance_matrix property: compute on first access, then memoised
capacitance_matrix(m) ==
    IF IsNone(m.capacitance) THEN ComputeCapacitance(m) ELSE Get(m.capacitance)
WithCapacitance(m) == [m EXCEPT !.capacitance = Some(capacitance_matrix(m))]

\* the backend inverts square, inner and capacitance without failing
LRInvDefined(m) ==
    /\ Invertible(m.square_matrix)
    /\ Invertible(m.inner_square_matrix)
    /\ Invertible(capacitance_matrix(m))

\* inv, by the Woodbury identity
LRInv(m) ==
    LET Si == MatInv(m.square_matrix)
        Ci == MatInv(capacitance_matrix(m))
        Ki == MatInv(m.inner_square_matrix)
    IN  IF m.cls = SqLR
        THEN SquareLowRankUpdateMatrix(m.cls,
                 MatMul(Si, m.left_factor_matrix),
                 MatMul(m.right_factor_matrix, Si),
                 Si, Ci, Some(Ki), 0 - m.sign)
        ELSE SymmetricLowRankUpdateMatrix(m.cls,
                 MatMul(Si, m.left_factor_matrix),
                 Si, Ci, Some(Ki), 0 - m.sign)

\* log_abs_det: log|det square| + log|det inner| + log|det capacitance|,
\* carried as the product of the absolute determinants
LRAbsDet(m) ==
    RMul(RAbs(Det(m.square_matrix)),
         RMul(RAbs(Det(m.inner_square_matrix)),
              RAbs(Det(capacitance_matrix(m)))))

\* T: symmetric variants return self
LRTranspose(m) ==
    IF m.cls = SqLR
    THEN SquareLowRankUpdateMatrix(m.cls,
             Transpose(m.right_factor_matrix), Transpose(m.left_factor_matrix),
             Transpose(m.square_matrix), Transpose(m.inner_square_matrix),
             IF IsNone(m.capacitance) THEN None
             ELSE Some(Transpose(Get(m.capacitance))),
             m.sign)
    ELSE m

\* _scalar_multiply of the three variants
LRScalarMultiply(m, a) ==
    LET cap == IF IsNone(m.capacitance) THEN None
               ELSE Some(MatScale(RDiv(Q(1), a), Get(m.capacitance)))
        cls == IF m.cls = PosDefLR /\ ~RPos(a) THEN SymLR ELSE m.cls
    IN  IF m.cls = SqLR
        THEN SquareLowRankUpdateMatrix(cls,
                 m.left_factor_matrix, m.right_factor_matrix,
                 MatScale(a, m.square_matrix),
                 MatScale(a, m.inner_square_matrix), cap, m.sign)
        ELSE SymmetricLowRankUpdateMatrix(cls,
                 m.left_factor_matrix,
                 MatScale(a, m.square_matrix),
                 MatScale(a, m.inner_square_matrix), cap, m.sign)

\* PositiveDefiniteLowRankUpdateMatrix.sqrt (Ambikasaran, O'Neill & Singh):
\* W is pos_def_matrix.sqrt, a factor with W @ W.T = pos_def_matrix
PosDefSqrt(S) == Cholesky(S)
SqrtU(m) == MatMul(MatInv(PosDefSqrt(m.square_matrix)), m.left_factor_matrix)
SqrtL(m) == Cholesky(MatMul(Transpose(SqrtU(m)), SqrtU(m)))
SqrtMArg(m) ==
    MatAdd(Identity(Cols(m.left_factor_matrix)),
           MatMul(Transpose(SqrtL(m)),
                  MatMul(m.inner_square_matrix, SqrtL(m))))
LRSqrtDefined(m) ==
    /\ m.cls = PosDefLR
    /\ CholeskyExact(m.square_matrix)
    /\ CholeskyExact(MatMul(Transpose(SqrtU(m)), SqrtU(m)))
    /\ SqrtmExact(SqrtMArg(m))
LRSqrt(m) ==
    LET W == PosDefSqrt(m.square_matrix)
        U == SqrtU(m)
        L == SqrtL(m)
        I_inner == Identity(Cols(m.left_factor_matrix))
        M == Sqrtm(SqrtMArg(m))
        X == MatMul(Transpose(MatInv(L)), MatMul(MatSub(M, I_inner), MatInv(L)))
        lr == SymmetricLowRankUpdateMatrix(SymLR, U, Identity(Rows(U)), X, None, 1)
    IN  MatMul(W, LRArray(lr))

(***************************************************************************)
(* Low-rank update instances the caller constructs: outer dimension 1 or   *)
(* 2, inner dimension 1, the capacitance matrix argument omitted.          *)
(***************************************************************************)
M1(a) == <<<<Q(a)>>>>
M2(a, b, c, d) == <<<<Q(a), Q(b)>>, <<Q(c), Q(d)>>>>
Col2(a, b) == <<<<Q(a)>>, <<Q(b)>>>>
Row2(a, b) == <<<<Q(a), Q(b)>>>>

PosDefBases == {M1(1), M1(16), M2(1, 0, 0, 1), M2(4, 2, 2, 5), M2(16, 0, 0, 16)}
SymmetricBases == PosDefBases \cup {M2(0, 1, 1, 0), M1(0 - 2)}
SquareBases == SymmetricBases \cup {M2(2, 1, 0, 1)}
Inners == {M1(1), M1(3), M1(6)}
LeftFactors == {M1(1), M1(2), M1(3), Col2(1, 0), Col2(2, 1), Col2(3, 0)}
RightFactors == {M1(1), M1(3), Row2(1, 0), Row2(1, 2)}
Signs == {1, 0 - 1}
LRScalars == {Q(2), Q(0 - 1), <<1, 4>>}

LRConstructed ==
    {SquareLowRankUpdateMatrix(SqLR, L, R, S, K, None, sg) :
        <<L, R, S, K, sg>> \in
            {t \in LeftFactors \X RightFactors \X SquareBases \X Inners \X Signs :
                LowRankShapesOk(t[1], t[2], t[3], t[4])}}
    \cup
    {SymmetricLowRankUpdateMatrix(SymLR, F, S, K, None, sg) :
        <<F, S, K, sg>> \in
            {t \in LeftFactors \X SymmetricBases \X Inners \X Signs :
                LowRankShapesOk(t[1], Transpose(t[1]), t[2], t[3])}}
    \cup
    {SymmetricLowRankUpdateMatrix(PosDefLR, F, S, K, None, sg) :
        <<F, S, K, sg>> \in
            {t \in LeftFactors \X PosDefBases \X Inners \X Signs :
                LowRankShapesOk(t[1], Transpose(t[1]), t[2], t[3])}}

\* the last operation the caller applied: its receiver, its argument, the
\* exception it raised if any, its value, the routines it dispatched to, the
\* instances as they were before it, and the operation before it
NoEvent ==
    [op |-> "none", self |-> 0, arg |-> <<>>, err |-> "ok", res |-> <<>>,
     log |-> <<>>, before |-> <<>>,
     prev |-> [op |-> "none", self |-> 0, err |-> "ok", res |-> <<>>]]

LRInit ==
    /\ lrM \in LRConstructed
    /\ lrOut = [op |-> "new"]
    /\ lrSteps = 0
    /\ heap = <<>>
    /\ ev = NoEvent
    /\ nops = 0
    /\ budget = 0

\* m.capacitance_matrix
LRCapacitance ==
    /\ Invertible(lrM.square_matrix) /\ Invertible(lrM.inner_square_matrix)
    /\ lrM' = WithCapacitance(lrM)
    /\ lrOut' = [op |-> "capacitance_matrix", lazy |-> IsNone(lrM.capacitance)]
    /\ UNCHANGED <<lrSteps, heap, ev, nops, budget>>

\* m.inv
LRInverse ==
    /\ LRInvDefined(lrM)
    /\ lrM' = WithCapacitance(lrM)
    /\ lrOut' = [op |-> "inv", lazy |-> IsNone(lrM.capacitance), obj |-> LRInv(lrM)]
    /\ UNCHANGED <<lrSteps, heap, ev, nops, budget>>

\* m.log_abs_det
LRLogAbsDet ==
    /\ Invertible(lrM.square_matrix) /\ Invertible(lrM.inner_square_matrix)
    /\ lrM' = WithCapacitance(lrM)
    /\ lrOut' = [op |-> "log_abs_det", lazy |-> IsNone(lrM.capacitance),
                 absdet |-> LRAbsDet(lrM)]
    /\ UNCHANGED <<lrSteps, heap, ev, nops, budget>>

\* m.sqrt
LRSquareRoot ==
    /\ LRSqrtDefined(lrM)
    /\ lrOut' = [op |-> "sqrt", array |-> LRSqrt(lrM)]
    /\ UNCHANGED <<lrM, lrSteps, heap, ev, nops, budget>>

\* m.T
LRT ==
    /\ lrOut' = [op |-> "T", obj |-> LRTranspose(lrM)]
    /\ UNCHANGED <<lrM, lrSteps, heap, ev, nops, budget>>

\* a * m for a nonzero scalar a
LRScale ==
    \E a \in LRScalars:
        /\ lrOut' = [op |-> "scalar_multiply", scalar |-> a,
                     obj |-> LRScalarMultiply(lrM, a)]
        /\ UNCHANGED <<lrM, lrSteps, heap, ev, nops, budget>>

\* the caller goes on with the matrix the last operation returned
LRContinue ==
    /\ lrOut.op \in {"inv", "T", "scalar_multiply"}
    /\ lrSteps < MaxLRSteps
    /\ lrM' = lrOut.obj
    /\ lrOut' = [op |-> "new"]
    /\ lrSteps' = lrSteps + 1
    /\ UNCHANGED <<heap, ev, nops, budget>>

LRNext ==
    \/ LRCapacitance
    \/ LRInverse
    \/ LRLogAbsDet
    \/ LRSquareRoot
    \/ LRT
    \/ LRScale
    \/ LRContinue

SpecLowRank == LRInit /\ [][LRNext]_vars

\* a symmetric 1x1 or 2x2 array is positive definite (Sylvester's criterion)
IsPosDef(A) == IsSymmetric(A) /\ RPos(A[1][1]) /\ RPos(Det(A))

(***************************************************************************)
(* C1: for every low-rank update M = S + sign*L*K*R, both signs, with a    *)
(* lazily computed capacitance matrix, M.inv is the true inverse of M:     *)
(* the dense value of M.inv times the dense value of M is the identity.    *)
(***************************************************************************)
C1_InvIsInverse ==
    (lrOut.op = "inv" /\ lrOut.lazy /\ Invertible(LRArray(lrM))) =>
        MatMul(LRArray(lrOut.obj), LRArray(lrM)) = Identity(Rows(lrM.square_matrix))

(***************************************************************************)
(* C2: for both signs, |det S| * |det K| * |det Cap|, with Cap computed    *)
(* lazily, equals |det| of M's dense materialization.                      *)
(***************************************************************************)
C2_LogAbsDetIsDense ==
    (lrOut.op = "log_abs_det" /\ lrOut.lazy) =>
        lrOut.absdet = RAbs(Det(LRArray(lrM)))

(***************************************************************************)
(* C3: for every reachable positive-definite low-rank update M, built with *)
(* either sign or obtained as an inv, M.sqrt @ M.sqrt.T equals M.          *)
(***************************************************************************)
C3_SqrtSquares ==
    (lrOut.op = "sqrt" /\ IsPosDef(LRArray(lrM))) =>
        MatMul(lrOut.array, Transpose(lrOut.array)) = LRArray(lrM)

(***************************************************************************)
(* Matrix objects.  The heap is the sequence of the Matrix instances       *)
(* created so far; an instance is known by its index, so that Python's     *)
(* `is` is equality of indices.  An instance holds its class, its shape,   *)
(* the parameters set by __init__ (p) and its memo caches (c), each cache  *)
(* None until populated.                                                   *)
(***************************************************************************)
NoSize == 0 - 1

Obj(cls, shape, p, c) == [cls |-> cls, shape |-> shape, p |-> p, c |-> c]
NoFields == <<>>
ArrayCache == [array |-> None]

\* the outcome of a call: the heap it leaves, and its value or its exception
\* (log: the structure-specific routines the call dispatched to)
Ok(h, v) == [h |-> h, v |-> v, err |-> "ok", log |-> <<>>]
Raise(h, e) == [h |-> h, v |-> None, err |-> e, log |-> <<>>]
Logged(r, entry) == [r EXCEPT !.log = <<entry>> \o @]
\* the outcome s of a call made after the call with outcome r
After(r, s) == [s EXCEPT !.log = r.log \o @]
IsOk(r) == r.err = "ok"
\* evaluate a call, then continue with its outcome
Then(r, next(_)) == next(r)
\* evaluate a call and, unless it raised, continue with its outcome
Bind(r, next(_)) == IF IsOk(r) THEN After(r, next(r)) ELSE r
Alloc(h, o) == Ok(Append(h, o), Len(h) + 1)

\* The backend on the rationals.  A call whose result is irrational has no
\* value in the model; it is marked Irrational and the operations of the
\* model are taken where no such call is made.
Irrational == "Irrational"
\* x**0.5 of a non-negative scalar
HalfPower(h, a) == IF RIsSquare(a) THEN Ok(h, RSqrt(a)) ELSE Raise(h, Irrational)
\* d**0.5 of a 1D array of non-negative entries
HalfPowerVec(h, d) ==
    IF \A k \in 1..Len(d) : RIsSquare(d[k])
    THEN Ok(h, [k \in 1..Len(d) |-> RSqrt(d[k])])
    ELSE Raise(h, Irrational)
\* nla.cholesky(A): LinAlgError unless A is positive definite
cholesky(h, A) ==
    Logged(IF ~PositiveDefiniteArray(A) THEN Raise(h, "LinAlgError")
           ELSE IF ~CholeskyExact(A) THEN Raise(h, Irrational)
           ELSE Ok(h, Cholesky(A)),
           <<"cholesky", A>>)
\* sla.sqrtm(A)
sqrtm(h, A) == IF SqrtmExact(A) THEN Ok(h, Sqrtm(A)) ELSE Raise(h, Irrational)

\* an operand of an operator or constructor: a Matrix instance or an ndarray
Mx(i) == [kind |-> "Matrix", id |-> i]
Arr(A) == [kind |-> "ndarray", array |-> A]
IsMatrix(x) == x.kind = "Matrix"

\* shape of an ndarray operand
ArrShape(A) == <<Rows(A), Cols(A)>>

(***************************************************************************)
(* The class hierarchy, as far as isinstance reads it.                     *)
(***************************************************************************)
LowRankClasses == {SqLR, SymLR, PosDefLR}
TriangularFactoredClasses ==
    {"TriangularFactoredDefiniteMatrix", "TriangularFactoredPositiveDefiniteMatrix"}
DenseDefiniteClasses == {"DenseDefiniteMatrix", "DensePositiveDefiniteMatrix"}
EigendecomposedClasses ==
    {"EigendecomposedSymmetricMatrix", "EigendecomposedPositiveDefiniteMatrix"}
BlockDiagonalClasses ==
    {"SquareBlockDiagonalMatrix", "SymmetricBlockDiagonalMatrix",
     "PositiveDefiniteBlockDiagonalMatrix"}
SymmetricClasses ==
    {"IdentityMatrix", "ScaledIdentityMatrix", "PositiveScaledIdentityMatrix",
     "DiagonalMatrix", "PositiveDiagonalMatrix", "DenseSymmetricMatrix",
     "PositiveDefiniteBlockDiagonalMatrix", SymLR, PosDefLR}
        \cup TriangularFactoredClasses \cup DenseDefiniteClasses
        \cup EigendecomposedClasses
PositiveDefiniteClasses ==
    {"IdentityMatrix", "PositiveScaledIdentityMatrix", "PositiveDiagonalMatrix",
     "TriangularFactoredPositiveDefiniteMatrix", "DensePositiveDefiniteMatrix",
     "EigendecomposedPositiveDefiniteMatrix",
     "PositiveDefiniteBlockDiagonalMatrix", PosDefLR}
SquareClasses ==
    SymmetricClasses \cup BlockDiagonalClasses \cup
    {"TriangularMatrix", "InverseTriangularMatrix", "DenseSquareMatrix",
     "InverseLUFactoredSquareMatrix", "OrthogonalMatrix",
     "ScaledOrthogonalMatrix", "SquareLowRankUpdateMatrix"}
ImplicitArrayClasses ==
    {"IdentityMatrix", "ScaledIdentityMatrix", "PositiveScaledIdentityMatrix",
     "DiagonalMatrix", "PositiveDiagonalMatrix", "InverseTriangularMatrix",
     "InverseLUFactoredSquareMatrix", "ScaledOrthogonalMatrix",
     "MatrixProduct", "BlockRowMatrix", "BlockColumnMatrix"}
        \cup BlockDiagonalClasses \cup LowRankClasses
        \cup TriangularFactoredClasses \cup EigendecomposedClasses

\* self.<name>, or self.<name>(arg): the attribute found on the class of
\* instance i, evaluated on heap h
RECURSIVE Invoke(_, _, _, _)

(***************************************************************************)
(* Constructors (__init__ of each class).                                  *)
(***************************************************************************)
IdentityMatrix(h, size) ==
    Alloc(h, Obj("IdentityMatrix", <<size, size>>, NoFields, ArrayCache))

ScaledIdentityMatrix(h, scalar, size) ==
    IF RIsZero(scalar) THEN Raise(h, "ValueError")
    ELSE Alloc(h, Obj("ScaledIdentityMatrix", <<size, size>>,
                      [scalar |-> scalar], ArrayCache))

\* if scalar <= 0: raise ValueError; then ScaledIdentityMatrix.__init__
PositiveScaledIdentityMatrix(h, scalar, size) ==
    IF RLeqZero(scalar) \/ RIsZero(scalar) THEN Raise(h, "ValueError")
    ELSE Alloc(h, Obj("PositiveScaledIdentityMatrix", <<size, size>>,
                      [scalar |-> scalar], ArrayCache))

DiagonalMatrix(h, diagonal) ==
    Alloc(h, Obj("DiagonalMatrix", <<Len(diagonal), Len(diagonal)>>,
                 [diagonal |-> diagonal], ArrayCache))

PositiveDiagonalMatrix(h, diagonal) ==
    IF \E k \in 1..Len(diagonal) : ~RPos(diagonal[k]) THEN Raise(h, "ValueError")
    ELSE Alloc(h, Obj("PositiveDiagonalMatrix", <<Len(diagonal), Len(diagonal)>>,
                      [diagonal |-> diagonal], ArrayCache))

\* np.tril(array) if lower else np.triu(array)
Tri(array, lower) == IF lower THEN Tril(array) ELSE Triu(array)

TriangularMatrix(h, array, lower) ==
    Alloc(h, Obj("TriangularMatrix", <<Rows(array), Rows(array)>>,
                 [array |-> Tri(array, lower), lower |-> lower], NoFields))

InverseTriangularMatrix(h, inverse_array, lower) ==
    Alloc(h, Obj("InverseTriangularMatrix",
                 <<Rows(inverse_array), Rows(inverse_array)>>,
                 [inverse_array |-> inverse_array, lower |-> lower], ArrayCache))

DenseSquareMatrix(h, array, lu_and_piv, lu_transposed) ==
    Alloc(h, Obj("DenseSquareMatrix", <<Rows(array), Rows(array)>>,
                 [array |-> array],
                 [lu_and_piv |-> lu_and_piv, lu_transposed |-> lu_transposed]))

InverseLUFactoredSquareMatrix(h, inv_array, inv_lu_and_piv, inv_lu_transposed) ==
    Alloc(h, Obj("InverseLUFactoredSquareMatrix",
                 <<Rows(inv_array), Rows(inv_array)>>,
                 [inv_array |-> inv_array, inv_lu_and_piv |-> inv_lu_and_piv,
                  inv_lu_transposed |-> inv_lu_transposed], ArrayCache))

OrthogonalMatrix(h, array) ==
    Alloc(h, Obj("OrthogonalMatrix", <<Rows(array), Rows(array)>>,
                 [array |-> array], NoFields))

ScaledOrthogonalMatrix(h, scalar, orth_array) ==
    Alloc(h, Obj("ScaledOrthogonalMatrix", <<Rows(orth_array), Rows(orth_array)>>,
                 [scalar |-> scalar, orth_array |-> orth_array], ArrayCache))

\* eigvec is None, a 2D array (wrapped in a new OrthogonalMatrix) or the index
\* of an OrthogonalMatrix; eigval is None or a 1D array
DenseSymmetricMatrix(h, array, eigvec, eigval) ==
    LET r == IF IsNone(eigvec) THEN Ok(h, None)
             ELSE IF Get(eigvec).kind = "ndarray"
             THEN LET o == OrthogonalMatrix(h, Get(eigvec).array)
                  IN  Ok(o.h, Some(o.v))
             ELSE Ok(h, Some(Get(eigvec).id))
    IN  Alloc(r.h, Obj("DenseSymmetricMatrix", <<Rows(array), Rows(array)>>,
                       [array |-> array], [eigval |-> eigval, eigvec |-> r.v]))

DenseRectangularMatrix(h, array) ==
    Alloc(h, Obj("DenseRectangularMatrix", ArrShape(array),
                 [array |-> array], NoFields))

\* MatrixProduct.__init__: matrices[0] of an empty tuple is an IndexError
MatrixProduct(h, matrices) ==
    IF Len(matrices) = 0 THEN Raise(h, "IndexError")
    ELSE Alloc(h, Obj("MatrixProduct",
                      <<h[matrices[1]].shape[1], h[matrices[Len(matrices)]].shape[2]>>,
                      [matrices |-> matrices], ArrayCache))

RECURSIVE SumSeq(_)
SumSeq(q) == IF Len(q) = 0 THEN 0 ELSE q[1] + SumSeq(Tail(q))
\* np.cumsum(dims[:-1])
CumSumButLast(dims) ==
    [k \in 1..(Len(dims) - 1) |-> SumSeq(SubSeq(dims, 1, k))]
ShapesOf(h, ids, axis) == [k \in 1..Len(ids) |-> h[ids[k]].shape[axis]]
SeqRange(q) == {q[k] : k \in 1..Len(q)}

\* SquareBlockDiagonalMatrix.__init__, run for an instance of class cls
SquareBlockDiagonalMatrix__init__(h, cls, blocks) ==
    LET sizes == ShapesOf(h, blocks, 1)
    IN  IF \E k \in 1..Len(blocks) : h[blocks[k]].cls \notin SquareClasses
        THEN Raise(h, "ValueError")
        ELSE IF NoSize \in SeqRange(sizes) THEN Raise(h, "TypeError")
        ELSE Alloc(h, Obj(cls, <<SumSeq(sizes), SumSeq(sizes)>>,
                          [blocks |-> blocks, sizes |-> sizes,
                           splits |-> CumSumButLast(sizes)], ArrayCache))

SquareBlockDiagonalMatrix(h, blocks) ==
    SquareBlockDiagonalMatrix__init__(h, "SquareBlockDiagonalMatrix", blocks)

\* SymmetricBlockDiagonalMatrix.__init__, run for an instance of class cls
SymmetricBlockDiagonalMatrix__init__(h, cls, blocks) ==
    IF \E k \in 1..Len(blocks) : h[blocks[k]].cls \notin SymmetricClasses
    THEN Raise(h, "ValueError")
    ELSE SquareBlockDiagonalMatrix__init__(h, cls, blocks)

SymmetricBlockDiagonalMatrix(h, blocks) ==
    SymmetricBlockDiagonalMatrix__init__(h, "SymmetricBlockDiagonalMatrix", blocks)

PositiveDefiniteBlockDiagonalMatrix(h, blocks) ==
    IF \E k \in 1..Len(blocks) : h[blocks[k]].cls \notin PositiveDefiniteClasses
    THEN Raise(h, "ValueError")
    ELSE SymmetricBlockDiagonalMatrix__init__(
             h, "PositiveDefiniteBlockDiagonalMatrix", blocks)

BlockRowMatrix(h, blocks) ==
    LET col_dims == ShapesOf(h, blocks, 2)
    IN  IF Cardinality(SeqRange(ShapesOf(h, blocks, 1))) > 1
        THEN Raise(h, "ValueError")
        ELSE IF NoSize \in SeqRange(col_dims) THEN Raise(h, "TypeError")
        ELSE Alloc(h, Obj("BlockRowMatrix",
                          <<h[blocks[1]].shape[1], SumSeq(col_dims)>>,
                          [blocks |-> blocks, splits |-> CumSumButLast(col_dims)],
                          ArrayCache))

BlockColumnMatrix(h, blocks) ==
    LET row_dims == ShapesOf(h, blocks, 1)
    IN  IF Cardinality(SeqRange(ShapesOf(h, blocks, 2))) > 1
        THEN Raise(h, "ValueError")
        ELSE IF NoSize \in SeqRange(row_dims) THEN Raise(h, "TypeError")
        ELSE Alloc(h, Obj("BlockColumnMatrix",
                          <<SumSeq(row_dims), h[blocks[1]].shape[2]>>,
                          [blocks |-> blocks, splits |-> CumSumButLast(row_dims)],
                          ArrayCache))

\* _BaseTriangularFactoredDefiniteMatrix.__init__: the sign it accepts
SignAccepted(sign) == sign = 1 \/ sign = 0 - 1

\* TriangularFactoredDefiniteMatrix.__init__, run for an instance of class
\* cls.  factor is an ndarray operand (wrapped in a new TriangularMatrix, for
\* which factor_is_lower must be a Boolean) or a TriangularMatrix or
\* InverseTriangularMatrix instance; factor_is_lower is None or a Boolean.
\* The sign is tested last, by the base class.
TriangularFactoredDefiniteMatrix__init__(h, cls, factor, sign, factor_is_lower) ==
    IF ~IsMatrix(factor) /\ IsNone(factor_is_lower) THEN Raise(h, "ValueError")
    ELSE Then(IF IsMatrix(factor) THEN Ok(h, factor.id)
              ELSE TriangularMatrix(h, factor.array, Get(factor_is_lower)),
              LAMBDA f :
                  IF ~SignAccepted(sign) THEN Raise(h, "ValueError")
                  ELSE Alloc(f.h, Obj(cls, <<f.h[f.v].shape[1], f.h[f.v].shape[1]>>,
                                      [factor |-> f.v, sign |-> sign], ArrayCache)))

TriangularFactoredDefiniteMatrix(h, factor, sign, factor_is_lower) ==
    TriangularFactoredDefiniteMatrix__init__(
        h, "TriangularFactoredDefiniteMatrix", factor, sign, factor_is_lower)

TriangularFactoredPositiveDefiniteMatrix(h, factor, factor_is_lower) ==
    TriangularFactoredDefiniteMatrix__init__(
        h, "TriangularFactoredPositiveDefiniteMatrix", factor, 1, factor_is_lower)

\* construction that factorises sign * array at once when no factor is given
DenseDefiniteEagerFactor(h, cls, array, fac, is_posdef) ==
    IF ~IsNone(fac)
    THEN Alloc(h, Obj(cls, <<Rows(array), Rows(array)>>,
                      [array |-> array, sign |-> IF is_posdef THEN 1 ELSE 0 - 1],
                      [factor |-> fac]))
    ELSE Bind(cholesky(h, MatScale(Q(IF is_posdef THEN 1 ELSE 0 - 1), array)),
              LAMBDA f :
                  Then(TriangularMatrix(f.h, f.v, TRUE), LAMBDA t :
                      Alloc(t.h, Obj(cls, <<Rows(array), Rows(array)>>,
                                     [array |-> array,
                                      sign |-> IF is_posdef THEN 1 ELSE 0 - 1],
                                     [factor |-> Some(t.v)]))))

\* DenseDefiniteMatrix.__init__, run for an instance of class cls; factor is
\* None or the index of a triangular instance and is the memo of the factor
DenseDefiniteMatrix__init__(h, cls, array, factor, is_posdef) ==
    Alloc(h, Obj(cls, <<Rows(array), Rows(array)>>,
                 [array |-> array, sign |-> IF is_posdef THEN 1 ELSE 0 - 1],
                 [factor |-> factor]))

DenseDefiniteMatrix(h, array, factor, is_posdef) ==
    DenseDefiniteMatrix__init__(h, "DenseDefiniteMatrix", array, factor, is_posdef)

DensePositiveDefiniteMatrix(h, array, factor) ==
    DenseDefiniteMatrix__init__(h, "DensePositiveDefiniteMatrix", array, factor, TRUE)

\* EigendecomposedSymmetricMatrix.__init__, run for an instance of class cls;
\* eigvec is an ndarray operand (wrapped in a new OrthogonalMatrix) or an
\* OrthogonalMatrix instance, eigval a 1D array.  diag_eigval is an implicitly
\* sized ScaledIdentityMatrix for a single eigenvalue, else a DiagonalMatrix.
EigendecomposedSymmetricMatrix__init__(h, cls, eigvec, eigval) ==
    Then(IF IsMatrix(eigvec) THEN Ok(h, eigvec.id)
         ELSE OrthogonalMatrix(h, eigvec.array), LAMBDA v :
        Then(IF Len(eigval) = 1 THEN ScaledIdentityMatrix(v.h, eigval[1], NoSize)
             ELSE DiagonalMatrix(v.h, eigval), LAMBDA d :
            IF ~IsOk(d) THEN Raise(h, d.err)
            ELSE Alloc(d.h, Obj(cls, <<d.h[v.v].shape[1], d.h[v.v].shape[1]>>,
                                [eigvec |-> v.v, eigval |-> eigval,
                                 diag_eigval |-> d.v], ArrayCache))))

EigendecomposedSymmetricMatrix(h, eigvec, eigval) ==
    EigendecomposedSymmetricMatrix__init__(
        h, "EigendecomposedSymmetricMatrix", eigvec, eigval)

EigendecomposedPositiveDefiniteMatrix(h, eigvec, eigval) ==
    IF \E k \in 1..Len(eigval) : ~RPos(eigval[k]) THEN Raise(h, "ValueError")
    ELSE EigendecomposedSymmetricMatrix__init__(
             h, "EigendecomposedPositiveDefiniteMatrix", eigvec, eigval)

\* SquareLowRankUpdateMatrix.__init__ on Matrix operands, run for an instance
\* of class cls; inner is None or an index, capacitance None or an index
LowRankUpdateMatrix__init__(h, cls, left, right, square, inner, capacitance, sign) ==
    LET dim_outer == h[left].shape[1]
        dim_inner == h[left].shape[2]
    IN  IF h[square].shape[1] # dim_outer THEN Raise(h, "ValueError")
        ELSE IF h[square].shape[1] # h[square].shape[2] THEN Raise(h, "ValueError")
        ELSE IF h[right].shape # <<dim_inner, dim_outer>> THEN Raise(h, "ValueError")
        ELSE IF ~IsNone(inner) /\ h[Get(inner)].shape # <<dim_inner, dim_inner>>
        THEN Raise(h, "ValueError")
        ELSE LET r == IF IsNone(inner) THEN IdentityMatrix(h, dim_inner)
                      ELSE Ok(h, Get(inner))
             IN  Alloc(r.h, Obj(cls, <<dim_outer, dim_outer>>,
                          [left_factor_matrix |-> left, right_factor_matrix |-> right,
                           square_matrix |-> square, inner_square_matrix |-> r.v,
                           sign |-> sign],
                          [array |-> None, capacitance_matrix |-> capacitance]))

NewSquareLowRankUpdateMatrix(h, left, right, square, inner, capacitance, sign) ==
    LowRankUpdateMatrix__init__(h, SqLR, left, right, square, inner,
                                capacitance, sign)

\* the instances of h as they are in h2, without the temporaries h2 added
Released(h, h2) == SubSeq(h2, 1, Len(h))

\* SymmetricLowRankUpdateMatrix.__init__, which is also all that
\* PositiveDefiniteLowRankUpdateMatrix.__init__ runs after storing its
\* arguments: both operands are compared with their own .T by identity (.T of
\* an omitted inner matrix is an attribute lookup on None), then the base
\* class is initialised with factor_matrix.T on the right.  factor_matrix,
\* symmetric_matrix (pos_def_matrix) and the inner matrix of a constructed
\* instance are its left_factor_matrix, square_matrix and inner_square_matrix.
NewSymmetricLowRankUpdateMatrix(h, cls, factor, symmetric, inner, capacitance, sign) ==
    Then(Invoke(h, symmetric, "T", None), LAMBDA st :
        IF ~IsOk(st) THEN st
        ELSE IF st.v # symmetric
        THEN After(st, Raise(Released(h, st.h), "ValueError"))
        ELSE IF IsNone(inner)
        THEN After(st, Raise(Released(h, st.h), "AttributeError"))
        ELSE Then(Invoke(st.h, Get(inner), "T", None), LAMBDA it :
            IF ~IsOk(it) THEN After(st, it)
            ELSE IF it.v # Get(inner)
            THEN After(st, After(it, Raise(Released(h, it.h), "ValueError")))
            ELSE Then(Invoke(it.h, factor, "T", None), LAMBDA ft :
                IF ~IsOk(ft) THEN After(st, After(it, ft))
                ELSE Then(LowRankUpdateMatrix__init__(
                              ft.h, cls, factor, ft.v, symmetric, inner,
                              capacitance, sign), LAMBDA m :
                    After(st, After(it, After(ft,
                        IF IsOk(m) THEN m
                        ELSE Raise(Released(h, m.h), m.err))))))))

(***************************************************************************)
(* The pivoted LU backend (scipy.linalg.lu_factor, lu_solve) on 1x1 and    *)
(* 2x2 arrays: partial pivoting by the larger absolute first column entry; *)
(* piv holds, 0-based, the row each row was interchanged with.             *)
(***************************************************************************)
RLess(a, b) == a[1] * b[2] < b[1] * a[2]
lu_factor(A) ==
    IF Rows(A) = 1 THEN [lu |-> A, piv |-> <<0>>]
    ELSE LET swap == RLess(RAbs(A[1][1]), RAbs(A[2][1]))
             B == IF swap THEN <<A[2], A[1]>> ELSE A
             l == RDiv(B[2][1], B[1][1])
         IN  [lu |-> <<B[1], <<l, RSub(B[2][2], RMul(l, B[1][2]))>>>>,
              piv |-> IF swap THEN <<1, 1>> ELSE <<0, 1>>]
\* the array a packed factorisation stands for: P @ L @ U
LUArray(f) ==
    IF Rows(f.lu) = 1 THEN f.lu
    ELSE LET L == <<<<Q(1), Q(0)>>, <<f.lu[2][1], Q(1)>>>>
             B == MatMul(L, Triu(f.lu))
         IN  IF f.piv[1] = 1 THEN <<B[2], B[1]>> ELSE B
\* lu_solve(lu_and_piv, b, trans): solves a x = b, or a.T x = b if trans
lu_solve(f, b, trans) ==
    MatMul(MatInv(IF trans THEN Transpose(LUArray(f)) ELSE LUArray(f)), b)

\* scipy.linalg.solve_triangular(a, b, lower): reads one triangle of a
solve_triangular(a, b, lower) == MatMul(MatInv(Tri(a, lower)), b)

(***************************************************************************)
(* The matrix an instance denotes, from its parameters alone.              *)
(***************************************************************************)
Diag(d) == LET e(i, j) == IF i = j THEN d[i] ELSE Q(0) IN Mat(Len(d), Len(d), e)
HStack(A, B) == [i \in 1..Rows(A) |-> A[i] \o B[i]]
VStack(A, B) == A \o B
BlockDiag2(A, B) ==
    LET e(i, j) ==
            IF i <= Rows(A) /\ j <= Cols(A) THEN A[i][j]
            ELSE IF i > Rows(A) /\ j > Cols(A) THEN B[i - Rows(A)][j - Cols(A)]
            ELSE Q(0)
    IN  Mat(Rows(A) + Rows(B), Cols(A) + Cols(B), e)

RECURSIVE Dense(_, _)
RECURSIVE DenseFold(_, _, _)
\* combine the dense values of a tuple of instances, left to right
DenseFold(h, ids, kind) ==
    IF Len(ids) = 1 THEN Dense(h, ids[1])
    ELSE LET A == DenseFold(h, SubSeq(ids, 1, Len(ids) - 1), kind)
             B == Dense(h, ids[Len(ids)])
         IN  CASE kind = "product" -> MatMul(A, B)
               [] kind = "row" -> HStack(A, B)
               [] kind = "column" -> VStack(A, B)
               [] kind = "diagonal" -> BlockDiag2(A, B)
Dense(h, i) ==
    LET o == h[i]
        n == o.shape[1]
    IN  CASE o.cls = "IdentityMatrix" -> Identity(n)
          [] o.cls \in {"ScaledIdentityMatrix", "PositiveScaledIdentityMatrix"} ->
                MatScale(o.p.scalar, Identity(n))
          [] o.cls \in {"DiagonalMatrix", "PositiveDiagonalMatrix"} ->
                Diag(o.p.diagonal)
          [] o.cls \in {"TriangularMatrix", "DenseSquareMatrix", "OrthogonalMatrix",
                        "DenseSymmetricMatrix", "DenseRectangularMatrix"}
                           \cup DenseDefiniteClasses ->
                o.p.array
          [] o.cls \in TriangularFactoredClasses ->
                MatScale(Q(o.p.sign), MatMul(Dense(h, o.p.factor),
                                             Transpose(Dense(h, o.p.factor))))
          [] o.cls \in EigendecomposedClasses ->
                MatMul(Dense(h, o.p.eigvec),
                       MatMul(Diag(o.p.eigval), Transpose(Dense(h, o.p.eigvec))))
          [] o.cls = "InverseTriangularMatrix" ->
                solve_triangular(o.p.inverse_array, Identity(n), o.p.lower)
          [] o.cls = "InverseLUFactoredSquareMatrix" ->
                lu_solve(o.p.inv_lu_and_piv, Identity(n), o.p.inv_lu_transposed)
          [] o.cls = "ScaledOrthogonalMatrix" ->
                MatScale(o.p.scalar, o.p.orth_array)
          [] o.cls = "MatrixProduct" -> DenseFold(h, o.p.matrices, "product")
          [] o.cls = "BlockRowMatrix" -> DenseFold(h, o.p.blocks, "row")
          [] o.cls = "BlockColumnMatrix" -> DenseFold(h, o.p.blocks, "column")
          [] o.cls \in BlockDiagonalClasses ->
                DenseFold(h, o.p.blocks, "diagonal")
          [] o.cls \in LowRankClasses ->
                MatAdd(Dense(h, o.p.square_matrix),
                       MatMul(MatScale(Q(o.p.sign), Dense(h, o.p.left_factor_matrix)),
                              MatMul(Dense(h, o.p.inner_square_matrix),
                                     Dense(h, o.p.right_factor_matrix))))

(***************************************************************************)
(* _scalar_multiply of each class, and the scalar operators of Matrix.     *)
(***************************************************************************)
ROne == Q(1)
OptMap1(o, f(_)) == IF IsNone(o) THEN None ELSE Some(f(Get(o)))
ScaleVec(a, d) == [k \in 1..Len(d) |-> RMul(a, d[k])]

RECURSIVE ScaleBlocks(_, _, _)

IdentityMatrix_scalar_multiply(h, i, scalar) ==
    IF RPos(scalar) THEN PositiveScaledIdentityMatrix(h, scalar, h[i].shape[1])
    ELSE ScaledIdentityMatrix(h, scalar, h[i].shape[1])

ScaledIdentityMatrix_scalar_multiply(h, i, scalar) ==
    ScaledIdentityMatrix(h, RMul(scalar, h[i].p.scalar), h[i].shape[1])

PositiveScaledIdentityMatrix_scalar_multiply(h, i, scalar) ==
    IF RPos(scalar)
    THEN PositiveScaledIdentityMatrix(h, RMul(scalar, h[i].p.scalar), h[i].shape[1])
    ELSE ScaledIdentityMatrix_scalar_multiply(h, i, scalar)

DiagonalMatrix_scalar_multiply(h, i, scalar) ==
    DiagonalMatrix(h, ScaleVec(scalar, h[i].p.diagonal))

PositiveDiagonalMatrix_scalar_multiply(h, i, scalar) ==
    IF RPos(scalar) THEN PositiveDiagonalMatrix(h, ScaleVec(scalar, h[i].p.diagonal))
    ELSE DiagonalMatrix_scalar_multiply(h, i, scalar)

TriangularMatrix_scalar_multiply(h, i, scalar) ==
    TriangularMatrix(h, MatScale(scalar, h[i].p.array), h[i].p.lower)

InverseTriangularMatrix_scalar_multiply(h, i, scalar) ==
    InverseTriangularMatrix(h, MatScale(RDiv(ROne, scalar), h[i].p.inverse_array),
                            h[i].p.lower)

\* scalar multiplication handing over the scaled array without its factors
DenseSquareScaleDroppingFactors(h, i, scalar) ==
    DenseSquareMatrix(h, MatScale(scalar, h[i].p.array), None, None)

\* new_lu = old_lu + (scalar - 1) * np.triu(old_lu)
DenseSquareMatrix_scalar_multiply(h, i, scalar) ==
    LET o == h[i]
    IN  IF IsNone(o.c.lu_and_piv) \/ IsNone(o.c.lu_transposed)
        THEN DenseSquareMatrix(h, MatScale(scalar, o.p.array), None, None)
        ELSE LET old == Get(o.c.lu_and_piv)
                 new_lu == MatAdd(old.lu, MatScale(RSub(scalar, ROne), Triu(old.lu)))
             IN  DenseSquareMatrix(h, MatScale(scalar, o.p.array),
                                   Some([lu |-> new_lu, piv |-> old.piv]),
                                   o.c.lu_transposed)

\* scalar multiplication dividing the whole packed factorisation by the scalar
InverseLUScaleWholeFactor(h, i, scalar) ==
    InverseLUFactoredSquareMatrix(
        h, MatScale(RDiv(ROne, scalar), h[i].p.inv_array),
        [lu |-> MatScale(RDiv(ROne, scalar), h[i].p.inv_lu_and_piv.lu),
         piv |-> h[i].p.inv_lu_and_piv.piv],
        h[i].p.inv_lu_transposed)

\* new_inv_lu = old_inv_lu - (scalar - 1) / scalar * np.triu(old_inv_lu)
InverseLUFactoredSquareMatrix_scalar_multiply(h, i, scalar) ==
    LET o == h[i]
        old == o.p.inv_lu_and_piv
        new_inv_lu == MatSub(old.lu, MatScale(RDiv(RSub(scalar, ROne), scalar),
                                              Triu(old.lu)))
    IN  InverseLUFactoredSquareMatrix(h, MatScale(RDiv(ROne, scalar), o.p.inv_array),
                                      [lu |-> new_inv_lu, piv |-> old.piv],
                                      o.p.inv_lu_transposed)

DenseSymmetricMatrix_scalar_multiply(h, i, scalar) ==
    LET scaled(eigval) == ScaleVec(scalar, eigval)
        instance(id) == [kind |-> "Matrix", id |-> id]
    IN  DenseSymmetricMatrix(h, MatScale(scalar, h[i].p.array),
                             OptMap1(h[i].c.eigvec, instance),
                             OptMap1(h[i].c.eigval, scaled))

OrthogonalMatrix_scalar_multiply(h, i, scalar) ==
    ScaledOrthogonalMatrix(h, scalar, h[i].p.array)

ScaledOrthogonalMatrix_scalar_multiply(h, i, scalar) ==
    ScaledOrthogonalMatrix(h, RMul(scalar, h[i].p.scalar), h[i].p.orth_array)

DenseRectangularMatrix_scalar_multiply(h, i, scalar) ==
    DenseRectangularMatrix(h, MatScale(scalar, h[i].p.array))

\* prepends a scaled identity to the chain
MatrixProduct_scalar_multiply(h, i, scalar) ==
    LET r == ScaledIdentityMatrix(h, scalar, h[i].shape[1])
    IN  IF IsOk(r) THEN MatrixProduct(r.h, <<r.v>> \o h[i].p.matrices) ELSE r

\* tuple(scalar * block for block in blocks)
ScaleBlocks(h, blocks, scalar) ==
    IF Len(blocks) = 0 THEN Ok(h, <<>>)
    ELSE LET r == Invoke(h, blocks[1], "__rmul__", scalar)
         IN  IF ~IsOk(r) THEN r
             ELSE LET rest == ScaleBlocks(r.h, Tail(blocks), scalar)
                  IN  IF IsOk(rest) THEN Ok(rest.h, <<r.v>> \o rest.v) ELSE rest

BlockMatrix_scalar_multiply(h, i, scalar) ==
    LET r == ScaleBlocks(h, h[i].p.blocks, scalar)
    IN  IF ~IsOk(r) THEN r
        ELSE CASE h[i].cls = "SquareBlockDiagonalMatrix" ->
                      SquareBlockDiagonalMatrix(r.h, r.v)
               [] h[i].cls = "SymmetricBlockDiagonalMatrix" ->
                      SymmetricBlockDiagonalMatrix(r.h, r.v)
               [] h[i].cls = "PositiveDefiniteBlockDiagonalMatrix" ->
                      IF RPos(scalar) THEN PositiveDefiniteBlockDiagonalMatrix(r.h, r.v)
                      ELSE SymmetricBlockDiagonalMatrix(r.h, r.v)
               [] h[i].cls = "BlockRowMatrix" -> BlockRowMatrix(r.h, r.v)
               [] h[i].cls = "BlockColumnMatrix" -> BlockColumnMatrix(r.h, r.v)

\* type(self)(left, right, scalar * square, scalar * inner,
\*            capacitance / scalar if populated, sign)
SquareLowRankUpdateMatrix_scalar_multiply(h, i, scalar) ==
    LET o == h[i]
        rs == Invoke(h, o.p.square_matrix, "__rmul__", scalar)
    IN  IF ~IsOk(rs) THEN rs
        ELSE LET rk == Invoke(rs.h, o.p.inner_square_matrix, "__rmul__", scalar)
             IN  IF ~IsOk(rk) THEN rk
                 ELSE LET rc == IF IsNone(o.c.capacitance_matrix) THEN Ok(rk.h, None)
                                ELSE LET d == Invoke(
                                                  rk.h, Get(o.c.capacitance_matrix),
                                                  "__truediv__", scalar)
                                     IN  IF IsOk(d) THEN Ok(d.h, Some(d.v)) ELSE d
                      IN  IF ~IsOk(rc) THEN rc
                          ELSE NewSquareLowRankUpdateMatrix(
                                   rc.h, o.p.left_factor_matrix,
                                   o.p.right_factor_matrix, rs.v, Some(rk.v),
                                   rc.v, o.p.sign)

\* type(self)(factor, scalar * symmetric, scalar * inner,
\*            capacitance / scalar if populated, sign); a positive-definite
\* update scaled by a negative scalar is a SymmetricLowRankUpdateMatrix
SymmetricLowRankUpdateMatrix_scalar_multiply(h, i, scalar) ==
    Bind(Invoke(h, h[i].p.square_matrix, "__rmul__", scalar), LAMBDA rs :
        Bind(Invoke(rs.h, h[i].p.inner_square_matrix, "__rmul__", scalar), LAMBDA rk :
            Bind(IF IsNone(h[i].c.capacitance_matrix) THEN Ok(rk.h, None)
                 ELSE Bind(Invoke(rk.h, Get(h[i].c.capacitance_matrix),
                                  "__truediv__", scalar),
                           LAMBDA d : Ok(d.h, Some(d.v))), LAMBDA rc :
                NewSymmetricLowRankUpdateMatrix(
                    rc.h, IF h[i].cls = PosDefLR /\ ~RPos(scalar) THEN SymLR
                          ELSE h[i].cls,
                    h[i].p.left_factor_matrix, rs.v, Some(rk.v), rc.v,
                    h[i].p.sign))))

\* TriangularFactoredDefiniteMatrix(factor=abs(scalar)**0.5 * self.factor,
\*                                  sign=self._sign * np.sign(scalar))
TriangularFactoredDefiniteMatrix_scalar_multiply(h, i, scalar) ==
    Bind(HalfPower(h, RAbs(scalar)), LAMBDA a :
        Bind(Invoke(h, h[i].p.factor, "__rmul__", a.v), LAMBDA f :
            TriangularFactoredDefiniteMatrix(f.h, Mx(f.v),
                                             h[i].p.sign * RSign(scalar), None)))

TriangularFactoredPositiveDefiniteMatrix_scalar_multiply(h, i, scalar) ==
    IF RPos(scalar)
    THEN Bind(HalfPower(h, scalar), LAMBDA a :
             Bind(Invoke(h, h[i].p.factor, "__rmul__", a.v), LAMBDA f :
                 TriangularFactoredPositiveDefiniteMatrix(f.h, Mx(f.v), Some(TRUE))))
    ELSE TriangularFactoredDefiniteMatrix_scalar_multiply(h, i, scalar)

\* scaling that keeps the definiteness flag of the operand
DenseScaleKeepingSign(h, i, scalar) ==
    Bind(IF IsNone(h[i].c.factor) THEN Ok(h, None)
         ELSE Bind(HalfPower(h, RAbs(scalar)), LAMBDA a :
                  Bind(Invoke(h, Get(h[i].c.factor), "__rmul__", a.v),
                       LAMBDA f : Ok(f.h, Some(f.v)))), LAMBDA f :
        IF h[i].p.sign = 1
        THEN DensePositiveDefiniteMatrix(f.h, MatScale(scalar, h[i].p.array), f.v)
        ELSE DenseDefiniteMatrix(f.h, MatScale(scalar, h[i].p.array), f.v, FALSE))

\* positive definite when (scalar > 0) == (self._sign == 1); the factor, if
\* populated, is scaled by abs(scalar)**0.5
DenseDefiniteMatrix_scalar_multiply(h, i, scalar) ==
    Bind(IF IsNone(h[i].c.factor) THEN Ok(h, None)
         ELSE Bind(HalfPower(h, RAbs(scalar)), LAMBDA a :
                  Bind(Invoke(h, Get(h[i].c.factor), "__rmul__", a.v),
                       LAMBDA f : Ok(f.h, Some(f.v)))), LAMBDA f :
        IF RPos(scalar) <=> (h[i].p.sign = 1)
        THEN DensePositiveDefiniteMatrix(f.h, MatScale(scalar, h[i].p.array), f.v)
        ELSE DenseDefiniteMatrix(f.h, MatScale(scalar, h[i].p.array), f.v, FALSE))

EigendecomposedSymmetricMatrix_scalar_multiply(h, i, scalar) ==
    EigendecomposedSymmetricMatrix(h, Mx(h[i].p.eigvec),
                                   ScaleVec(scalar, h[i].p.eigval))

EigendecomposedPositiveDefiniteMatrix_scalar_multiply(h, i, scalar) ==
    IF RPos(scalar)
    THEN EigendecomposedPositiveDefiniteMatrix(h, Mx(h[i].p.eigvec),
                                               ScaleVec(scalar, h[i].p.eigval))
    ELSE EigendecomposedSymmetricMatrix_scalar_multiply(h, i, scalar)

_scalar_multiply(h, i, scalar) ==
    LET cls == h[i].cls
    IN  CASE cls = "IdentityMatrix" -> IdentityMatrix_scalar_multiply(h, i, scalar)
          [] cls = "ScaledIdentityMatrix" ->
                ScaledIdentityMatrix_scalar_multiply(h, i, scalar)
          [] cls = "PositiveScaledIdentityMatrix" ->
                PositiveScaledIdentityMatrix_scalar_multiply(h, i, scalar)
          [] cls = "DiagonalMatrix" -> DiagonalMatrix_scalar_multiply(h, i, scalar)
          [] cls = "PositiveDiagonalMatrix" ->
                PositiveDiagonalMatrix_scalar_multiply(h, i, scalar)
          [] cls = "TriangularMatrix" -> TriangularMatrix_scalar_multiply(h, i, scalar)
          [] cls = "InverseTriangularMatrix" ->
                InverseTriangularMatrix_scalar_multiply(h, i, scalar)
          [] cls = "DenseSquareMatrix" -> DenseSquareMatrix_scalar_multiply(h, i, scalar)
          [] cls = "InverseLUFactoredSquareMatrix" ->
                InverseLUFactoredSquareMatrix_scalar_multiply(h, i, scalar)
          [] cls = "DenseSymmetricMatrix" ->
                DenseSymmetricMatrix_scalar_multiply(h, i, scalar)
          [] cls = "OrthogonalMatrix" -> OrthogonalMatrix_scalar_multiply(h, i, scalar)
          [] cls = "ScaledOrthogonalMatrix" ->
                ScaledOrthogonalMatrix_scalar_multiply(h, i, scalar)
          [] cls = "DenseRectangularMatrix" ->
                DenseRectangularMatrix_scalar_multiply(h, i, scalar)
          [] cls = "MatrixProduct" -> MatrixProduct_scalar_multiply(h, i, scalar)
          [] cls \in {"BlockRowMatrix", "BlockColumnMatrix"} \cup BlockDiagonalClasses ->
                BlockMatrix_scalar_multiply(h, i, scalar)
          [] cls = "SquareLowRankUpdateMatrix" ->
                SquareLowRankUpdateMatrix_scalar_multiply(h, i, scalar)
          [] cls \in {SymLR, PosDefLR} ->
                SymmetricLowRankUpdateMatrix_scalar_multiply(h, i, scalar)
          [] cls = "TriangularFactoredDefiniteMatrix" ->
                TriangularFactoredDefiniteMatrix_scalar_multiply(h, i, scalar)
          [] cls = "TriangularFactoredPositiveDefiniteMatrix" ->
                TriangularFactoredPositiveDefiniteMatrix_scalar_multiply(h, i, scalar)
          [] cls \in DenseDefiniteClasses ->
                DenseDefiniteMatrix_scalar_multiply(h, i, scalar)
          [] cls = "EigendecomposedSymmetricMatrix" ->
                EigendecomposedSymmetricMatrix_scalar_multiply(h, i, scalar)
          [] cls = "EigendecomposedPositiveDefiniteMatrix" ->
                EigendecomposedPositiveDefiniteMatrix_scalar_multiply(h, i, scalar)

\* Matrix.__mul__ (and __rmul__, which calls it) for a scalar operand
__mul__(h, i, other) ==
    IF RIsZero(other) THEN Raise(h, "NotImplementedError")
    ELSE Logged(_scalar_multiply(h, i, other), <<"_scalar_multiply", i, other>>)

\* Matrix.__rmul__
__rmul__(h, i, other) == __mul__(h, i, other)

\* division handing the divisor itself to _scalar_multiply
DivideByProduct(h, i, other) ==
    IF RIsZero(other) THEN Raise(h, "NotImplementedError")
    ELSE Logged(_scalar_multiply(h, i, other), <<"_scalar_multiply", i, other>>)

\* Matrix.__truediv__ for a scalar operand
__truediv__(h, i, other) ==
    IF RIsZero(other) THEN Raise(h, "NotImplementedError")
    ELSE Logged(_scalar_multiply(h, i, RDiv(ROne, other)),
                <<"_scalar_multiply", i, RDiv(ROne, other)>>)

\* Matrix.__neg__
__neg__(h, i) ==
    Logged(_scalar_multiply(h, i, Q(0 - 1)), <<"_scalar_multiply", i, Q(0 - 1)>>)

(***************************************************************************)
(* Memoised factorisations read by T, inv and log_abs_det.                 *)
(***************************************************************************)
\* lu_and_piv factorising in place, the array overwritten by its factors
LuAndPivInPlace(h, i) ==
    IF IsNone(h[i].c.lu_and_piv)
    THEN LET f == lu_factor(h[i].p.array)
         IN  Logged(Ok([h EXCEPT ![i].p.array = f.lu,
                                 ![i].c = [lu_and_piv |-> Some(f),
                                           lu_transposed |-> Some(FALSE)]], f),
                    <<"lu_factor", i>>)
    ELSE Ok(h, Get(h[i].c.lu_and_piv))

\* DenseSquareMatrix.lu_and_piv: factorise on first access
DenseSquareMatrix_lu_and_piv(h, i) ==
    IF IsNone(h[i].c.lu_and_piv)
    THEN LET f == lu_factor(h[i].p.array)
         IN  Logged(Ok([h EXCEPT ![i].c = [lu_and_piv |-> Some(f),
                                           lu_transposed |-> Some(FALSE)]], f),
                    <<"lu_factor", i>>)
    ELSE Ok(h, Get(h[i].c.lu_and_piv))

\* Python's `not x` for x None or a bool
PyNot(o) == IF IsNone(o) THEN TRUE ELSE ~Get(o)

(***************************************************************************)
(* T of each class.                                                        *)
(***************************************************************************)
RECURSIVE MapProperty(_, _, _)
RECURSIVE SquareLowRankUpdateMatrix_inv(_, _)

\* T keeping the triangle flag
TriangularSameFlagT(h, i) ==
    TriangularMatrix(h, Transpose(h[i].p.array), h[i].p.lower)

TriangularMatrix_T(h, i) ==
    TriangularMatrix(h, Transpose(h[i].p.array), ~h[i].p.lower)

InverseTriangularMatrix_T(h, i) ==
    InverseTriangularMatrix(h, Transpose(h[i].p.inverse_array), ~h[i].p.lower)

DenseSquareMatrix_T(h, i) ==
    Then(DenseSquareMatrix_lu_and_piv(h, i), LAMBDA r :
        After(r, DenseSquareMatrix(r.h, Transpose(r.h[i].p.array), Some(r.v),
                                   Some(PyNot(r.h[i].c.lu_transposed)))))

InverseLUFactoredSquareMatrix_T(h, i) ==
    InverseLUFactoredSquareMatrix(h, Transpose(h[i].p.inv_array),
                                  h[i].p.inv_lu_and_piv, ~h[i].p.inv_lu_transposed)

OrthogonalMatrix_T(h, i) == OrthogonalMatrix(h, Transpose(h[i].p.array))

ScaledOrthogonalMatrix_T(h, i) ==
    ScaledOrthogonalMatrix(h, h[i].p.scalar, Transpose(h[i].p.orth_array))

DenseRectangularMatrix_T(h, i) == DenseRectangularMatrix(h, Transpose(h[i].p.array))

\* tuple(m.<property> for m in ids), property one of "T", "inv"
MapProperty(h, ids, property) ==
    IF Len(ids) = 0 THEN Ok(h, <<>>)
    ELSE LET r == Invoke(h, ids[1], property, None)
         IN  IF ~IsOk(r) THEN r
             ELSE LET rest == MapProperty(r.h, Tail(ids), property)
                  IN  IF IsOk(rest)
                      THEN After(r, [rest EXCEPT !.v = <<r.v>> \o @])
                      ELSE After(r, rest)

Reversed(q) == [k \in 1..Len(q) |-> q[Len(q) + 1 - k]]

\* MatrixProduct(tuple(matrix.T for matrix in reversed(matrices)))
MatrixProduct_T(h, i) ==
    LET r == MapProperty(h, Reversed(h[i].p.matrices), "T")
    IN  IF IsOk(r) THEN After(r, MatrixProduct(r.h, r.v)) ELSE r

SquareBlockDiagonalMatrix_T(h, i) ==
    LET r == MapProperty(h, h[i].p.blocks, "T")
    IN  IF IsOk(r) THEN After(r, SquareBlockDiagonalMatrix(r.h, r.v)) ELSE r

\* the transposed blocks stacked in the opposite order
BlockRowTransposeReversed(h, i) ==
    LET r == MapProperty(h, Reversed(h[i].p.blocks), "T")
    IN  IF IsOk(r) THEN After(r, BlockColumnMatrix(r.h, r.v)) ELSE r

BlockRowMatrix_T(h, i) ==
    LET r == MapProperty(h, h[i].p.blocks, "T")
    IN  IF IsOk(r) THEN After(r, BlockColumnMatrix(r.h, r.v)) ELSE r

BlockColumnMatrix_T(h, i) ==
    LET r == MapProperty(h, h[i].p.blocks, "T")
    IN  IF IsOk(r) THEN After(r, BlockRowMatrix(r.h, r.v)) ELSE r

\* type(self)(right.T, left.T, square.T, inner.T, capacitance.T if populated, sign)
SquareLowRankUpdateMatrix_T(h, i) ==
    LET o == h[i]
        r == MapProperty(h, <<o.p.right_factor_matrix, o.p.left_factor_matrix,
                              o.p.square_matrix, o.p.inner_square_matrix>>, "T")
    IN  IF ~IsOk(r) THEN r
        ELSE LET rc == IF IsNone(o.c.capacitance_matrix) THEN Ok(r.h, None)
                       ELSE LET t == Invoke(r.h, Get(o.c.capacitance_matrix), "T", None)
                            IN  IF IsOk(t) THEN [t EXCEPT !.v = Some(@)] ELSE t
             IN  IF ~IsOk(rc) THEN After(r, rc)
                 ELSE After(r, After(rc,
                          NewSquareLowRankUpdateMatrix(rc.h, r.v[1], r.v[2], r.v[3],
                                                       Some(r.v[4]), rc.v, o.p.sign)))

T(h, i) ==
    LET cls == h[i].cls
    IN  CASE cls \in SymmetricClasses -> Ok(h, i)
          [] cls = "TriangularMatrix" -> TriangularMatrix_T(h, i)
          [] cls = "InverseTriangularMatrix" -> InverseTriangularMatrix_T(h, i)
          [] cls = "DenseSquareMatrix" -> DenseSquareMatrix_T(h, i)
          [] cls = "InverseLUFactoredSquareMatrix" ->
                InverseLUFactoredSquareMatrix_T(h, i)
          [] cls = "OrthogonalMatrix" -> OrthogonalMatrix_T(h, i)
          [] cls = "ScaledOrthogonalMatrix" -> ScaledOrthogonalMatrix_T(h, i)
          [] cls = "DenseRectangularMatrix" -> DenseRectangularMatrix_T(h, i)
          [] cls = "MatrixProduct" -> MatrixProduct_T(h, i)
          [] cls = "SquareBlockDiagonalMatrix" -> SquareBlockDiagonalMatrix_T(h, i)
          [] cls = "SymmetricBlockDiagonalMatrix" -> Ok(h, i)
          [] cls = "BlockRowMatrix" -> BlockRowMatrix_T(h, i)
          [] cls = "BlockColumnMatrix" -> BlockColumnMatrix_T(h, i)
          [] cls = "SquareLowRankUpdateMatrix" -> SquareLowRankUpdateMatrix_T(h, i)

(***************************************************************************)
(* inv of each invertible class.                                           *)
(***************************************************************************)
InvVec(d) == [k \in 1..Len(d) |-> RDiv(ROne, d[k])]

ScaledIdentityMatrix_inv(h, i) ==
    ScaledIdentityMatrix(h, RDiv(ROne, h[i].p.scalar), h[i].shape[1])

PositiveScaledIdentityMatrix_inv(h, i) ==
    PositiveScaledIdentityMatrix(h, RDiv(ROne, h[i].p.scalar), h[i].shape[1])

DiagonalMatrix_inv(h, i) == DiagonalMatrix(h, InvVec(h[i].p.diagonal))

\* the inverse of a positive diagonal matrix returned as a plain diagonal one
InverseAsPlainDiagonal(h, i) == DiagonalMatrix(h, InvVec(h[i].p.diagonal))

PositiveDiagonalMatrix_inv(h, i) == PositiveDiagonalMatrix(h, InvVec(h[i].p.diagonal))

TriangularMatrix_inv(h, i) ==
    InverseTriangularMatrix(h, h[i].p.array, h[i].p.lower)

InverseTriangularMatrix_inv(h, i) ==
    TriangularMatrix(h, h[i].p.inverse_array, h[i].p.lower)

DenseSquareMatrix_inv(h, i) ==
    Then(DenseSquareMatrix_lu_and_piv(h, i), LAMBDA r :
        After(r, InverseLUFactoredSquareMatrix(r.h, r.h[i].p.array, r.v,
                                               Get(r.h[i].c.lu_transposed))))

\* inv handing over the array without its factorisation
InverseLUDroppingFactors(h, i) ==
    DenseSquareMatrix(h, h[i].p.inv_array, None, None)

InverseLUFactoredSquareMatrix_inv(h, i) ==
    DenseSquareMatrix(h, h[i].p.inv_array, Some(h[i].p.inv_lu_and_piv),
                      Some(h[i].p.inv_lu_transposed))

ScaledOrthogonalMatrix_inv(h, i) ==
    ScaledOrthogonalMatrix(h, RDiv(ROne, h[i].p.scalar), Transpose(h[i].p.orth_array))

\* type(self)(tuple(block.inv for block in blocks))
SquareBlockDiagonalMatrix_inv(h, i) ==
    Bind(MapProperty(h, h[i].p.blocks, "inv"), LAMBDA r :
        CASE h[i].cls = "SquareBlockDiagonalMatrix" ->
                 SquareBlockDiagonalMatrix(r.h, r.v)
          [] h[i].cls = "SymmetricBlockDiagonalMatrix" ->
                 SymmetricBlockDiagonalMatrix(r.h, r.v)
          [] h[i].cls = "PositiveDefiniteBlockDiagonalMatrix" ->
                 PositiveDefiniteBlockDiagonalMatrix(r.h, r.v))

(***************************************************************************)
(* The @ operator.  An operand is a Matrix instance or an ndarray.         *)
(***************************************************************************)
\* other.shape
OperandShape(h, x) == IF IsMatrix(x) THEN h[x.id].shape ELSE ArrShape(x.array)
\* a constructor's outcome as the value of an expression
AsMatrix(r) == IF IsOk(r) THEN [r EXCEPT !.v = Mx(@)] ELSE r

RECURSIVE MatrixProduct_left_matrix_multiply(_, _, _)
RECURSIVE MatrixProduct_right_matrix_multiply(_, _, _)

RECURSIVE ChainAppliedFirstToLast(_, _, _)
\* the chain applied to the left operand from its first factor on
ChainAppliedFirstToLast(h, matrices, other) ==
    IF Len(matrices) = 0 THEN Ok(h, other)
    ELSE LET r == Invoke(h, matrices[1], "__matmul__", other)
         IN  IF ~IsOk(r) THEN r
             ELSE After(r, ChainAppliedFirstToLast(r.h, Tail(matrices), r.v))

\* for matrix in reversed(matrices): other = matrix @ other
MatrixProduct_left_matrix_multiply(h, matrices, other) ==
    IF Len(matrices) = 0 THEN Ok(h, other)
    ELSE LET r == Invoke(h, matrices[Len(matrices)], "__matmul__", other)
         IN  IF ~IsOk(r) THEN r
             ELSE After(r, MatrixProduct_left_matrix_multiply(
                               r.h, SubSeq(matrices, 1, Len(matrices) - 1), r.v))

\* for matrix in matrices: other = other @ matrix
MatrixProduct_right_matrix_multiply(h, matrices, other) ==
    IF Len(matrices) = 0 THEN Ok(h, other)
    ELSE LET r == Invoke(h, matrices[1], "__rmatmul__", other)
         IN  IF ~IsOk(r) THEN r
             ELSE After(r, MatrixProduct_right_matrix_multiply(
                               r.h, Tail(matrices), r.v))

(***************************************************************************)
(* The block matrices applied to an array: the operand is split at the     *)
(* split points along one axis, every block multiplies (through @) its     *)
(* part or the whole operand, and the results are stacked or summed.       *)
(***************************************************************************)
RECURSIVE StackArrays(_, _)
StackArrays(arrays, kind) ==
    IF Len(arrays) = 1 THEN arrays[1]
    ELSE LET A == StackArrays(SubSeq(arrays, 1, Len(arrays) - 1), kind)
             B == arrays[Len(arrays)]
         IN  CASE kind = "row" -> HStack(A, B)
               [] kind = "column" -> VStack(A, B)
               [] kind = "diagonal" -> BlockDiag2(A, B)

Min(a, b) == IF a < b THEN a ELSE b
\* q[lo:hi] of Python
Slice(q, lo, hi) == SubSeq(q, Min(lo, Len(q)) + 1, Min(hi, Len(q)))
\* the operand split into as many equal parts as there are split points + 1,
\* wherever the split points are
NpSplitEqualParts(A, splits, axis) ==
    LET n == IF axis = 0 THEN Rows(A) ELSE Cols(A)
        k == Len(splits) + 1
        at(j) == (j * n) \div k
    IN  [j \in 1..k |->
            IF axis = 0 THEN Slice(A, at(j - 1), at(j))
            ELSE [r \in 1..Rows(A) |-> Slice(A[r], at(j - 1), at(j))]]

\* np.split(A, splits, axis), axis 0 or -1: the sub-arrays between
\* consecutive points of [0] + splits + [A.shape[axis]]
NpSplit(A, splits, axis) ==
    LET n == IF axis = 0 THEN Rows(A) ELSE Cols(A)
        div_points == <<0>> \o splits \o <<n>>
    IN  [k \in 1..(Len(splits) + 1) |->
            IF axis = 0 THEN Slice(A, div_points[k], div_points[k + 1])
            ELSE [r \in 1..Rows(A) |->
                     Slice(A[r], div_points[k], div_points[k + 1])]]

RECURSIVE MapMatMul(_, _, _, _)
\* [block @ part for block, part in zip(blocks, parts)] for name __matmul__,
\* [part @ block ...] for name __rmatmul__
MapMatMul(h, blocks, parts, name) ==
    IF Len(blocks) = 0 \/ Len(parts) = 0 THEN Ok(h, <<>>)
    ELSE Bind(Invoke(h, blocks[1], name, Arr(parts[1])), LAMBDA r :
             Bind(MapMatMul(r.h, Tail(blocks), Tail(parts), name), LAMBDA rest :
                 Ok(rest.h, <<r.v.array>> \o rest.v)))

RECURSIVE SumArrays(_)
SumArrays(arrays) ==
    IF Len(arrays) = 1 THEN arrays[1]
    ELSE MatAdd(SumArrays(SubSeq(arrays, 1, Len(arrays) - 1)), arrays[Len(arrays)])

Repeated(x, n) == [k \in 1..n |-> x]

\* SquareBlockDiagonalMatrix._split, then the per-block products concatenated
\* along the axis of the split
SquareBlockDiagonalMatrix_matrix_multiply(h, i, other, axis) ==
    IF (IF axis = 0 THEN Rows(other.array) ELSE Cols(other.array)) # h[i].shape[1]
    THEN Raise(h, "AssertionError")
    ELSE Then(NpSplit(other.array, h[i].p.splits, axis), LAMBDA parts :
             Logged(Bind(MapMatMul(h, h[i].p.blocks, parts,
                                   IF axis = 0 THEN "__matmul__" ELSE "__rmatmul__"),
                         LAMBDA r :
                             Ok(r.h, Arr(StackArrays(r.v, IF axis = 0 THEN "column"
                                                          ELSE "row")))),
                    <<"np.split", parts>>))

\* sum(block @ part for block, part in zip(blocks, np.split(other, splits, 0)))
BlockRowMatrix_left_matrix_multiply(h, i, other) ==
    IF Rows(other.array) # h[i].shape[2] THEN Raise(h, "AssertionError")
    ELSE Then(NpSplit(other.array, h[i].p.splits, 0), LAMBDA parts :
             Logged(Bind(MapMatMul(h, h[i].p.blocks, parts, "__matmul__"),
                         LAMBDA r : Ok(r.h, Arr(SumArrays(r.v)))),
                    <<"np.split", parts>>))

\* np.concatenate([other @ block for block in blocks], axis=-1)
BlockRowMatrix_right_matrix_multiply(h, i, other) ==
    Bind(MapMatMul(h, h[i].p.blocks,
                   Repeated(other.array, Len(h[i].p.blocks)), "__rmatmul__"),
         LAMBDA r : Ok(r.h, Arr(StackArrays(r.v, "row"))))

\* np.concatenate([block @ other for block in blocks], axis=0)
BlockColumnMatrix_left_matrix_multiply(h, i, other) ==
    Bind(MapMatMul(h, h[i].p.blocks,
                   Repeated(other.array, Len(h[i].p.blocks)), "__matmul__"),
         LAMBDA r : Ok(r.h, Arr(StackArrays(r.v, "column"))))

\* sum(part @ block for block, part in zip(blocks, np.split(other, splits, -1)))
BlockColumnMatrix_right_matrix_multiply(h, i, other) ==
    IF Cols(other.array) # h[i].shape[1] THEN Raise(h, "AssertionError")
    ELSE Then(NpSplit(other.array, h[i].p.splits, 0 - 1), LAMBDA parts :
             Logged(Bind(MapMatMul(h, h[i].p.blocks, parts, "__rmatmul__"),
                         LAMBDA r : Ok(r.h, Arr(SumArrays(r.v)))),
                    <<"np.split", parts>>))

\* self._left_matrix_multiply(other), other an ndarray operand
_left_matrix_multiply(h, i, other) ==
    LET o == h[i]
    IN  CASE o.cls = "IdentityMatrix" -> Ok(h, other)
          [] o.cls \in {"ScaledIdentityMatrix", "PositiveScaledIdentityMatrix"} ->
                Ok(h, Arr(MatScale(o.p.scalar, other.array)))
          [] o.cls = "MatrixProduct" ->
                MatrixProduct_left_matrix_multiply(h, o.p.matrices, other)
          [] o.cls \in BlockDiagonalClasses ->
                SquareBlockDiagonalMatrix_matrix_multiply(h, i, other, 0)
          [] o.cls = "BlockRowMatrix" ->
                BlockRowMatrix_left_matrix_multiply(h, i, other)
          [] o.cls = "BlockColumnMatrix" ->
                BlockColumnMatrix_left_matrix_multiply(h, i, other)
          [] OTHER -> Ok(h, Arr(MatMul(Dense(h, i), other.array)))

\* self._right_matrix_multiply(other), other an ndarray operand
_right_matrix_multiply(h, i, other) ==
    LET o == h[i]
    IN  CASE o.cls = "IdentityMatrix" -> Ok(h, other)
          [] o.cls \in {"ScaledIdentityMatrix", "PositiveScaledIdentityMatrix"} ->
                Ok(h, Arr(MatScale(o.p.scalar, other.array)))
          [] o.cls = "MatrixProduct" ->
                MatrixProduct_right_matrix_multiply(h, o.p.matrices, other)
          [] o.cls \in BlockDiagonalClasses ->
                SquareBlockDiagonalMatrix_matrix_multiply(h, i, other, 0 - 1)
          [] o.cls = "BlockRowMatrix" ->
                BlockRowMatrix_right_matrix_multiply(h, i, other)
          [] o.cls = "BlockColumnMatrix" ->
                BlockColumnMatrix_right_matrix_multiply(h, i, other)
          [] OTHER -> Ok(h, Arr(MatMul(other.array, Dense(h, i))))

\* __matmul__ checking dimensions against arrays only, not against matrices
MatMulUncheckedChain(h, i, other) ==
    IF IsMatrix(other) /\ h[other.id].cls = "MatrixProduct"
    THEN AsMatrix(MatrixProduct(h, <<i>> \o h[other.id].p.matrices))
    ELSE IF IsMatrix(other)
    THEN AsMatrix(MatrixProduct(h, <<i, other.id>>))
    ELSE IF h[i].shape[2] # NoSize /\ OperandShape(h, other)[1] # h[i].shape[2]
    THEN Raise(h, "ValueError")
    ELSE Logged(_left_matrix_multiply(h, i, other), <<"_left_matrix_multiply", i>>)

__matmul__(h, i, other) ==
    IF h[i].shape[2] # NoSize /\ OperandShape(h, other)[1] # h[i].shape[2]
    THEN Raise(h, "ValueError")
    ELSE IF IsMatrix(other) /\ h[other.id].cls = "MatrixProduct"
    THEN AsMatrix(MatrixProduct(h, <<i>> \o h[other.id].p.matrices))
    ELSE IF IsMatrix(other)
    THEN AsMatrix(MatrixProduct(h, <<i, other.id>>))
    ELSE Logged(_left_matrix_multiply(h, i, other), <<"_left_matrix_multiply", i>>)

__rmatmul__(h, i, other) ==
    IF h[i].shape[1] # NoSize /\ OperandShape(h, other)[2] # h[i].shape[1]
    THEN Raise(h, "ValueError")
    ELSE IF IsMatrix(other) /\ h[other.id].cls = "MatrixProduct"
    THEN AsMatrix(MatrixProduct(h, h[other.id].p.matrices \o <<i>>))
    ELSE IF IsMatrix(other)
    THEN AsMatrix(MatrixProduct(h, <<other.id, i>>))
    ELSE Logged(_right_matrix_multiply(h, i, other), <<"_right_matrix_multiply", i>>)

(***************************************************************************)
(* The array property: explicit classes return the stored array, implicit  *)
(* ones construct it on first access and memoise it.                       *)
(***************************************************************************)
ExplicitArrayClasses ==
    {"TriangularMatrix", "DenseSquareMatrix", "OrthogonalMatrix",
     "DenseSymmetricMatrix", "DenseRectangularMatrix"} \cup DenseDefiniteClasses

RECURSIVE MapArray(_, _)

\* [m.array for m in ids]: the heap afterwards and the arrays, in order
MapArray(h, ids) ==
    IF Len(ids) = 0 THEN Ok(h, <<>>)
    ELSE LET r == Invoke(h, ids[1], "array", None)
         IN  IF ~IsOk(r) THEN r
             ELSE LET rest == MapArray(r.h, Tail(ids))
                  IN  IF IsOk(rest)
                      THEN After(r, [rest EXCEPT !.v = <<r.v>> \o @])
                      ELSE After(r, rest)

\* matrices[0].array @ MatrixProduct(matrices[1:]); the temporary chain is
\* dropped once the product is taken
MatrixProduct_construct_array(h, i) ==
    LET a == Invoke(h, h[i].p.matrices[1], "array", None)
    IN  IF ~IsOk(a) THEN a
        ELSE LET tmp == MatrixProduct(a.h, Tail(h[i].p.matrices))
             IN  IF ~IsOk(tmp) THEN After(a, Raise(a.h, tmp.err))
                 ELSE LET r == Invoke(tmp.h, tmp.v, "__rmatmul__", Arr(a.v))
                      IN  IF IsOk(r) THEN After(a, Ok(a.h, r.v.array))
                          ELSE After(a, Raise(a.h, r.err))

BlockMatrix_construct_array(h, i) ==
    LET r == MapArray(h, h[i].p.blocks)
        kind == CASE h[i].cls = "BlockRowMatrix" -> "row"
                  [] h[i].cls = "BlockColumnMatrix" -> "column"
                  [] OTHER -> "diagonal"
    IN  IF IsOk(r) THEN [r EXCEPT !.v = StackArrays(@, kind)] ELSE r

\* square_matrix.array + (sign * left) @ (inner @ right.array)
SquareLowRankUpdateMatrix_construct_array(h, i) ==
    LET r == MapArray(h, <<h[i].p.square_matrix, h[i].p.right_factor_matrix>>)
    IN  IF IsOk(r) THEN [r EXCEPT !.v = Dense(h, i)] ELSE r

\* self @ np.identity(self.shape[0])
Solve_construct_array(h, i) ==
    LET r == Invoke(h, i, "__matmul__", Arr(Identity(h[i].shape[1])))
    IN  IF IsOk(r) THEN [r EXCEPT !.v = @.array] ELSE r

\* self._sign * (self.factor @ self.factor.array.T)
TriangularFactoredDefiniteMatrix_construct_array(h, i) ==
    Bind(Invoke(h, h[i].p.factor, "array", None), LAMBDA a :
        Bind(Invoke(a.h, h[i].p.factor, "__matmul__", Arr(Transpose(a.v))),
             LAMBDA r : Ok(r.h, MatScale(Q(h[i].p.sign), r.v.array))))

_construct_array(h, i) ==
    LET o == h[i]
    IN  CASE o.cls \in {"IdentityMatrix", "ScaledIdentityMatrix",
                        "PositiveScaledIdentityMatrix"} ->
                IF o.shape[1] = NoSize THEN Raise(h, "RuntimeError")
                ELSE Ok(h, Dense(h, i))
          [] o.cls \in {"DiagonalMatrix", "PositiveDiagonalMatrix"} ->
                Ok(h, Diag(o.p.diagonal))
          [] o.cls \in {"InverseTriangularMatrix",
                        "InverseLUFactoredSquareMatrix"}
                           \cup EigendecomposedClasses ->
                Solve_construct_array(h, i)
          [] o.cls \in TriangularFactoredClasses ->
                TriangularFactoredDefiniteMatrix_construct_array(h, i)
          [] o.cls = "ScaledOrthogonalMatrix" ->
                Ok(h, MatScale(o.p.scalar, o.p.orth_array))
          [] o.cls = "MatrixProduct" -> MatrixProduct_construct_array(h, i)
          [] o.cls \in {"BlockRowMatrix", "BlockColumnMatrix"}
                           \cup BlockDiagonalClasses ->
                BlockMatrix_construct_array(h, i)
          [] o.cls \in LowRankClasses ->
                SquareLowRankUpdateMatrix_construct_array(h, i)

array(h, i) ==
    IF h[i].cls \in ExplicitArrayClasses THEN Ok(h, h[i].p.array)
    ELSE IF ~IsNone(h[i].c.array) THEN Ok(h, Get(h[i].c.array))
    ELSE Then(_construct_array(h, i), LAMBDA r :
             IF ~IsOk(r) THEN r
             ELSE Logged([r EXCEPT !.h = [@ EXCEPT ![i].c.array = Some(r.v)]],
                         <<"_construct_array", i>>))

(***************************************************************************)
(* The eigendecomposition of symmetric matrices.  numpy.linalg.eigh is     *)
(* taken on diagonal 1x1 and 2x2 arrays, where it is exact: eigenvalues    *)
(* ascending, eigenvectors the matching columns of the identity.           *)
(***************************************************************************)
IsDiagonalArray(A) ==
    \A r \in 1..Rows(A) : \A k \in 1..Cols(A) : r # k => RIsZero(A[r][k])

Eigh(A) ==
    IF Rows(A) = 1 THEN [eigval |-> <<A[1][1]>>, eigvec |-> Identity(1)]
    ELSE IF RLess(A[2][2], A[1][1])
    THEN [eigval |-> <<A[2][2], A[1][1]>>,
          eigvec |-> <<<<Q(0), Q(1)>>, <<Q(1), Q(0)>>>>]
    ELSE [eigval |-> <<A[1][1], A[2][2]>>, eigvec |-> Identity(2)]

_compute_eigendecomposition(h, i) ==
    LET a == Invoke(h, i, "array", None)
        e == Eigh(a.v)
        o == OrthogonalMatrix(a.h, e.eigvec)
    IN  Logged(Ok([o.h EXCEPT ![i].c = [eigval |-> Some(e.eigval),
                                        eigvec |-> Some(o.v)]], o.v),
               <<"eigh", i>>)

Ones(n) == [k \in 1..n |-> Q(1)]

\* the classes whose eigval and eigvec the model evaluates
EigenClasses ==
    {"IdentityMatrix", "ScaledIdentityMatrix", "PositiveScaledIdentityMatrix",
     "DiagonalMatrix", "PositiveDiagonalMatrix", "DenseSymmetricMatrix"}

SymmetricMatrix_eigval(h, i) ==
    IF IsNone(h[i].c.eigval) \/ IsNone(h[i].c.eigvec)
    THEN LET r == _compute_eigendecomposition(h, i)
         IN  [r EXCEPT !.v = Get(r.h[i].c.eigval)]
    ELSE Ok(h, Get(h[i].c.eigval))

SymmetricMatrix_eigvec(h, i) ==
    IF IsNone(h[i].c.eigval) \/ IsNone(h[i].c.eigvec)
    THEN LET r == _compute_eigendecomposition(h, i)
         IN  [r EXCEPT !.v = Mx(Get(r.h[i].c.eigvec))]
    ELSE Ok(h, Mx(Get(h[i].c.eigvec)))

eigval(h, i) ==
    LET o == h[i]
    IN  CASE o.cls = "IdentityMatrix" -> Ok(h, Ones(o.shape[1]))
          [] o.cls \in {"ScaledIdentityMatrix", "PositiveScaledIdentityMatrix"} ->
                Ok(h, ScaleVec(o.p.scalar, Ones(o.shape[1])))
          [] o.cls \in {"DiagonalMatrix", "PositiveDiagonalMatrix"} ->
                Ok(h, o.p.diagonal)
          [] o.cls = "DenseSymmetricMatrix" -> SymmetricMatrix_eigval(h, i)

eigvec(h, i) ==
    LET o == h[i]
    IN  CASE o.cls = "IdentityMatrix" -> Ok(h, Mx(i))
          [] o.cls \in {"ScaledIdentityMatrix", "PositiveScaledIdentityMatrix",
                        "DiagonalMatrix", "PositiveDiagonalMatrix"} ->
                AsMatrix(IdentityMatrix(h, o.shape[1]))
          [] o.cls = "DenseSymmetricMatrix" -> SymmetricMatrix_eigvec(h, i)

(***************************************************************************)
(* The capacitance matrix and the inverse of a low-rank update, on         *)
(* instances.  Instances that an expression creates and that neither its   *)
(* result nor a cache refers to are dropped when it completes.             *)
(***************************************************************************)
\* DenseSquareMatrix(inner.inv.array + right @ (square.inv @ left.array))
SquareLowRankUpdateMatrix_capacitance_matrix(h, i) ==
    IF ~IsNone(h[i].c.capacitance_matrix)
    THEN Ok(h, Get(h[i].c.capacitance_matrix))
    ELSE LET o == h[i]
             ki == Invoke(h, o.p.inner_square_matrix, "inv", None)
         IN  IF ~IsOk(ki) THEN ki ELSE
         LET ka == Invoke(ki.h, ki.v, "array", None)
         IN  IF ~IsOk(ka) THEN Raise(h, ka.err) ELSE
         LET si == Invoke(ka.h, o.p.square_matrix, "inv", None)
         IN  IF ~IsOk(si) THEN Raise(h, si.err) ELSE
         LET la == Invoke(si.h, o.p.left_factor_matrix, "array", None)
         IN  IF ~IsOk(la) THEN Raise(h, la.err) ELSE
         LET inner == Invoke(la.h, si.v, "__matmul__", Arr(la.v))
         IN  IF ~IsOk(inner) THEN Raise(h, inner.err) ELSE
         LET outer == Invoke(inner.h, o.p.right_factor_matrix, "__matmul__", inner.v)
         IN  IF ~IsOk(outer) THEN Raise(h, outer.err) ELSE
         LET kept == SubSeq(outer.h, 1, Len(h))
             cap == DenseSquareMatrix(kept, MatAdd(ka.v, outer.v.array), None, None)
         IN  Logged(Ok([cap.h EXCEPT ![i].c.capacitance_matrix = Some(cap.v)],
                       cap.v),
                    <<"capacitance_matrix", i>>)

\* type(self)(square.inv @ left, right @ square.inv, square.inv,
\*            capacitance_matrix.inv, inner.inv, -sign)
SquareLowRankUpdateMatrix_inv(h, i) ==
    LET o == h[i]
        s1 == Invoke(h, o.p.square_matrix, "inv", None)
    IN  IF ~IsOk(s1) THEN s1 ELSE
    LET left == Invoke(s1.h, s1.v, "__matmul__", Mx(o.p.left_factor_matrix))
    IN  IF ~IsOk(left) THEN left ELSE
    LET s2 == Invoke(left.h, o.p.square_matrix, "inv", None)
        right == Invoke(s2.h, o.p.right_factor_matrix, "__matmul__", Mx(s2.v))
    IN  IF ~IsOk(right) THEN right ELSE
    LET s3 == Invoke(right.h, o.p.square_matrix, "inv", None)
        cap == Invoke(s3.h, i, "capacitance_matrix", None)
    IN  IF ~IsOk(cap) THEN cap ELSE
    LET ci == Invoke(cap.h, cap.v, "inv", None)
        ki == Invoke(ci.h, o.p.inner_square_matrix, "inv", None)
    IN  After(cap, After(ci,
            NewSquareLowRankUpdateMatrix(ki.h, left.v.id, right.v.id, s3.v,
                                         Some(ci.v), Some(ki.v), 0 - o.p.sign)))

(***************************************************************************)
(* The definite, eigendecomposed and symmetric low-rank classes: the       *)
(* lazily computed factor, inv and sqrt.                                   *)
(***************************************************************************)
\* DenseDefiniteMatrix.factor: computed from sign * array on first access and
\* memoised; the memo is assigned only once the factorisation has returned
DenseDefiniteMatrix_factor(h, i) ==
    IF ~IsNone(h[i].c.factor) THEN Ok(h, Get(h[i].c.factor))
    ELSE Bind(cholesky(h, MatScale(Q(h[i].p.sign), h[i].p.array)), LAMBDA f :
             Then(TriangularMatrix(f.h, f.v, TRUE), LAMBDA t :
                 Ok([t.h EXCEPT ![i].c.factor = Some(t.v)], t.v)))

factor(h, i) ==
    CASE h[i].cls \in DenseDefiniteClasses -> DenseDefiniteMatrix_factor(h, i)
      [] h[i].cls \in TriangularFactoredClasses -> Ok(h, h[i].p.factor)
      [] OTHER -> Raise(h, "AttributeError")

\* self.factor.inv.T
FactorInvT(h, i) ==
    Bind(Invoke(h, i, "factor", None), LAMBDA f :
        Bind(Invoke(f.h, f.v, "inv", None), LAMBDA fi :
            Invoke(fi.h, fi.v, "T", None)))

\* TriangularFactoredDefiniteMatrix(factor=self.factor.inv.T, sign=self._sign)
BaseTriangularFactoredDefiniteMatrix_inv(h, i) ==
    Bind(FactorInvT(h, i), LAMBDA t :
        TriangularFactoredDefiniteMatrix(t.h, Mx(t.v), h[i].p.sign, None))

\* TriangularFactoredPositiveDefiniteMatrix(factor=self.factor.inv.T)
TriangularFactoredPositiveDefiniteMatrix_inv(h, i) ==
    Bind(FactorInvT(h, i), LAMBDA t :
        TriangularFactoredPositiveDefiniteMatrix(t.h, Mx(t.v), Some(TRUE)))

\* EigendecomposedSymmetricMatrix(self.eigvec, 1 / self.eigval)
DenseSymmetricMatrix_inv(h, i) ==
    Bind(Invoke(h, i, "eigvec", None), LAMBDA v :
        Bind(Invoke(v.h, i, "eigval", None), LAMBDA e :
            EigendecomposedSymmetricMatrix(e.h, v.v, InvVec(e.v))))

EigendecomposedSymmetricMatrix_inv(h, i) ==
    EigendecomposedSymmetricMatrix(h, Mx(h[i].p.eigvec), InvVec(h[i].p.eigval))

EigendecomposedPositiveDefiniteMatrix_inv(h, i) ==
    EigendecomposedPositiveDefiniteMatrix(h, Mx(h[i].p.eigvec),
                                          InvVec(h[i].p.eigval))

\* EigendecomposedSymmetricMatrix(self.eigvec, self.eigval**0.5)
EigendecomposedPositiveDefiniteMatrix_sqrt(h, i) ==
    Bind(HalfPowerVec(h, h[i].p.eigval), LAMBDA e :
        EigendecomposedSymmetricMatrix(h, Mx(h[i].p.eigvec), e.v))

PositiveScaledIdentityMatrix_sqrt(h, i) ==
    Bind(HalfPower(h, h[i].p.scalar), LAMBDA a :
        PositiveScaledIdentityMatrix(h, a.v, h[i].shape[1]))

PositiveDiagonalMatrix_sqrt(h, i) ==
    Bind(HalfPowerVec(h, h[i].p.diagonal), LAMBDA d : PositiveDiagonalMatrix(h, d.v))

\* SquareBlockDiagonalMatrix(tuple(block.sqrt for block in blocks))
SquareBlockDiagonalMatrix_sqrt(h, i) ==
    Bind(MapProperty(h, h[i].p.blocks, "sqrt"), LAMBDA r :
        SquareBlockDiagonalMatrix(r.h, r.v))

\* the capacitance matrix of a symmetric update: a DenseSymmetricMatrix, or a
\* DensePositiveDefiniteMatrix for a positive-definite update, of
\* inner.inv.array + factor.T @ (symmetric.inv @ factor.array)
SymmetricLowRankUpdateMatrix_capacitance_matrix(h, i) ==
    IF ~IsNone(h[i].c.capacitance_matrix)
    THEN Ok(h, Get(h[i].c.capacitance_matrix))
    ELSE
    Bind(Invoke(h, h[i].p.inner_square_matrix, "inv", None), LAMBDA ki :
    Bind(Invoke(ki.h, ki.v, "array", None), LAMBDA ka :
    Bind(Invoke(ka.h, h[i].p.left_factor_matrix, "T", None), LAMBDA ft :
    Bind(Invoke(ft.h, h[i].p.square_matrix, "inv", None), LAMBDA si :
    Bind(Invoke(si.h, h[i].p.left_factor_matrix, "array", None), LAMBDA fa :
    Bind(Invoke(fa.h, si.v, "__matmul__", Arr(fa.v)), LAMBDA sf :
    Bind(Invoke(sf.h, ft.v, "__matmul__", sf.v), LAMBDA fsf :
    Bind(IF h[i].cls = PosDefLR
         THEN DensePositiveDefiniteMatrix(fsf.h, MatAdd(ka.v, fsf.v.array), None)
         ELSE DenseSymmetricMatrix(fsf.h, MatAdd(ka.v, fsf.v.array), None, None),
         LAMBDA cap :
        Logged(Ok([cap.h EXCEPT ![i].c.capacitance_matrix = Some(cap.v)], cap.v),
               <<"capacitance_matrix", i>>)))))))))

\* type(self)(symmetric.inv @ factor, symmetric.inv, capacitance_matrix.inv,
\*            inner.inv, -sign)
SymmetricLowRankUpdateMatrix_inv(h, i) ==
    Bind(Invoke(h, h[i].p.square_matrix, "inv", None), LAMBDA s1 :
    Bind(Invoke(s1.h, s1.v, "__matmul__", Mx(h[i].p.left_factor_matrix)), LAMBDA sf :
    Bind(Invoke(sf.h, h[i].p.square_matrix, "inv", None), LAMBDA s2 :
    Bind(Invoke(s2.h, i, "capacitance_matrix", None), LAMBDA cap :
    Bind(Invoke(cap.h, cap.v, "inv", None), LAMBDA ci :
    Bind(Invoke(ci.h, h[i].p.inner_square_matrix, "inv", None), LAMBDA ki :
        NewSymmetricLowRankUpdateMatrix(ki.h, h[i].cls, sf.v.id, s2.v, Some(ci.v),
                                        Some(ki.v), 0 - h[i].p.sign)))))))

\* The statements of PositiveDefiniteLowRankUpdateMatrix.sqrt, the k-th run
\* on the heap h with the values v of the statements before it:
\* W = pos_def.sqrt; K = inner; U = W.inv @ factor;
\* L = TriangularMatrix(cholesky(U.T @ U.array));
\* M = sqrtm(I_inner + L.T @ (K @ L.array));
\* X = DenseSymmetricMatrix(L.inv.T @ ((M - I_inner) @ L.inv));
\* return W @ SymmetricLowRankUpdateMatrix(U, IdentityMatrix(U.shape[0]), X)
PositiveDefiniteLowRankUpdateMatrix_sqrt_statement(h, i, v, k) ==
    CASE k = 1 -> Invoke(h, h[i].p.square_matrix, "sqrt", None)
      [] k = 2 -> Invoke(h, v[1], "inv", None)
      [] k = 3 -> Invoke(h, v[2], "__matmul__", Mx(h[i].p.left_factor_matrix))
      [] k = 4 -> Invoke(h, v[3].id, "T", None)
      [] k = 5 -> Invoke(h, v[3].id, "array", None)
      [] k = 6 -> Invoke(h, v[4], "__matmul__", Arr(v[5]))
      [] k = 7 -> cholesky(h, v[6].array)
      [] k = 8 -> TriangularMatrix(h, v[7], TRUE)
      [] k = 9 -> IdentityMatrix(h, h[v[3].id].shape[1])
      [] k = 10 -> Invoke(h, v[8], "T", None)
      [] k = 11 -> Invoke(h, v[8], "array", None)
      [] k = 12 -> Invoke(h, h[i].p.inner_square_matrix, "__matmul__", Arr(v[11]))
      [] k = 13 -> Invoke(h, v[10], "__matmul__", v[12])
      [] k = 14 -> sqrtm(h, MatAdd(Identity(h[v[3].id].shape[2]), v[13].array))
      [] k = 15 -> Invoke(h, v[8], "inv", None)
      [] k = 16 -> Invoke(h, v[15], "T", None)
      [] k = 17 -> Invoke(h, v[8], "inv", None)
      [] k = 18 -> Invoke(h, v[17], "__rmatmul__",
                          Arr(MatSub(v[14], Identity(h[v[3].id].shape[2]))))
      [] k = 19 -> Invoke(h, v[16], "__matmul__", v[18])
      [] k = 20 -> DenseSymmetricMatrix(h, v[19].array, None, None)
      [] k = 21 -> NewSymmetricLowRankUpdateMatrix(h, SymLR, v[3].id, v[9],
                                                   Some(v[20]), None, 1)
      [] k = 22 -> Invoke(h, v[1], "__matmul__", Mx(v[21]))

RECURSIVE PositiveDefiniteLowRankUpdateMatrix_sqrt_from(_, _, _, _)
\* the statements from the k-th on, after the calls with outcome r; the first
\* exception ends the method
PositiveDefiniteLowRankUpdateMatrix_sqrt_from(r, i, v, k) ==
    IF k > 22 THEN [r EXCEPT !.v = v[22].id]
    ELSE Then(PositiveDefiniteLowRankUpdateMatrix_sqrt_statement(r.h, i, v, k),
              LAMBDA s :
                  IF IsOk(s)
                  THEN PositiveDefiniteLowRankUpdateMatrix_sqrt_from(
                           After(r, s), i, Append(v, s.v), k + 1)
                  ELSE After(r, s))

PositiveDefiniteLowRankUpdateMatrix_sqrt(h, i) ==
    PositiveDefiniteLowRankUpdateMatrix_sqrt_from(Ok(h, None), i, <<>>, 1)

sqrt(h, i) ==
    LET cls == h[i].cls
    IN  CASE cls = "IdentityMatrix" -> Ok(h, i)
          [] cls = "PositiveScaledIdentityMatrix" ->
                PositiveScaledIdentityMatrix_sqrt(h, i)
          [] cls = "PositiveDiagonalMatrix" -> PositiveDiagonalMatrix_sqrt(h, i)
          [] cls \in {"TriangularFactoredPositiveDefiniteMatrix",
                      "DensePositiveDefiniteMatrix"} -> Invoke(h, i, "factor", None)
          [] cls = "EigendecomposedPositiveDefiniteMatrix" ->
                EigendecomposedPositiveDefiniteMatrix_sqrt(h, i)
          [] cls \in BlockDiagonalClasses -> SquareBlockDiagonalMatrix_sqrt(h, i)
          [] cls = PosDefLR -> PositiveDefiniteLowRankUpdateMatrix_sqrt(h, i)
          [] OTHER -> Raise(h, "AttributeError")

InvertibleClasses ==
    {"IdentityMatrix", "ScaledIdentityMatrix", "PositiveScaledIdentityMatrix",
     "DiagonalMatrix", "PositiveDiagonalMatrix", "TriangularMatrix",
     "InverseTriangularMatrix", "DenseSquareMatrix",
     "InverseLUFactoredSquareMatrix", "OrthogonalMatrix",
     "ScaledOrthogonalMatrix", "SquareBlockDiagonalMatrix",
     "SquareLowRankUpdateMatrix"}

inv(h, i) ==
    LET cls == h[i].cls
    IN  CASE cls = "IdentityMatrix" -> Ok(h, i)
          [] cls = "ScaledIdentityMatrix" -> ScaledIdentityMatrix_inv(h, i)
          [] cls = "PositiveScaledIdentityMatrix" ->
                PositiveScaledIdentityMatrix_inv(h, i)
          [] cls = "DiagonalMatrix" -> DiagonalMatrix_inv(h, i)
          [] cls = "PositiveDiagonalMatrix" -> PositiveDiagonalMatrix_inv(h, i)
          [] cls = "TriangularMatrix" -> TriangularMatrix_inv(h, i)
          [] cls = "InverseTriangularMatrix" -> InverseTriangularMatrix_inv(h, i)
          [] cls = "DenseSquareMatrix" -> DenseSquareMatrix_inv(h, i)
          [] cls = "InverseLUFactoredSquareMatrix" ->
                InverseLUFactoredSquareMatrix_inv(h, i)
          [] cls = "OrthogonalMatrix" -> OrthogonalMatrix_T(h, i)
          [] cls = "ScaledOrthogonalMatrix" -> ScaledOrthogonalMatrix_inv(h, i)
          [] cls \in BlockDiagonalClasses -> SquareBlockDiagonalMatrix_inv(h, i)
          [] cls = "SquareLowRankUpdateMatrix" -> SquareLowRankUpdateMatrix_inv(h, i)
          [] cls \in {SymLR, PosDefLR} -> SymmetricLowRankUpdateMatrix_inv(h, i)
          [] cls = "DenseSymmetricMatrix" -> DenseSymmetricMatrix_inv(h, i)
          [] cls \in {"TriangularFactoredDefiniteMatrix", "DenseDefiniteMatrix"} ->
                BaseTriangularFactoredDefiniteMatrix_inv(h, i)
          [] cls \in {"TriangularFactoredPositiveDefiniteMatrix",
                      "DensePositiveDefiniteMatrix"} ->
                TriangularFactoredPositiveDefiniteMatrix_inv(h, i)
          [] cls = "EigendecomposedSymmetricMatrix" ->
                EigendecomposedSymmetricMatrix_inv(h, i)
          [] cls = "EigendecomposedPositiveDefiniteMatrix" ->
                EigendecomposedPositiveDefiniteMatrix_inv(h, i)
          [] OTHER -> Raise(h, "AttributeError")

(***************************************************************************)
(* log_abs_det, carried as |det| (the sum of logarithms as a product).     *)
(***************************************************************************)
RECURSIVE RProd(_)
RProd(q) == IF Len(q) = 0 THEN Q(1) ELSE RMul(q[1], RProd(Tail(q)))
AbsVec(d) == [k \in 1..Len(d) |-> RAbs(d[k])]
DiagonalOf(A) == [k \in 1..Rows(A) |-> A[k][k]]
RPow(a, n) == RProd([k \in 1..n |-> a])

LogAbsDetClasses ==
    {"IdentityMatrix", "ScaledIdentityMatrix", "PositiveScaledIdentityMatrix",
     "DiagonalMatrix", "PositiveDiagonalMatrix", "TriangularMatrix",
     "InverseTriangularMatrix", "DenseSquareMatrix",
     "InverseLUFactoredSquareMatrix", "OrthogonalMatrix",
     "ScaledOrthogonalMatrix", "DenseSymmetricMatrix",
     "SquareLowRankUpdateMatrix"}

\* log_abs_det asking every implicitly sized instance for its size
LogAbsDetSizeRequired(h, i) ==
    IF h[i].shape[1] = NoSize THEN Raise(h, "RuntimeError")
    ELSE Ok(h, RAbs(Det(Dense(h, i))))

log_abs_det(h, i) ==
    LET o == h[i]
    IN  CASE o.cls \in {"IdentityMatrix", "OrthogonalMatrix"} -> Ok(h, Q(1))
          [] o.cls \in {"ScaledIdentityMatrix", "PositiveScaledIdentityMatrix"} ->
                IF o.shape[1] = NoSize THEN Raise(h, "RuntimeError")
                ELSE Ok(h, RPow(RAbs(o.p.scalar), o.shape[1]))
          [] o.cls = "ScaledOrthogonalMatrix" ->
                Ok(h, RPow(RAbs(o.p.scalar), o.shape[1]))
          [] o.cls \in {"DiagonalMatrix", "PositiveDiagonalMatrix"} ->
                Ok(h, RProd(AbsVec(o.p.diagonal)))
          [] o.cls = "TriangularMatrix" ->
                Ok(h, RProd(AbsVec(DiagonalOf(o.p.array))))
          [] o.cls = "InverseTriangularMatrix" ->
                Ok(h, RDiv(ROne, RProd(AbsVec(DiagonalOf(
                                 Tri(o.p.inverse_array, o.p.lower))))))
          [] o.cls = "DenseSquareMatrix" ->
                LET r == DenseSquareMatrix_lu_and_piv(h, i)
                IN  [r EXCEPT !.v = RProd(AbsVec(DiagonalOf(@.lu)))]
          [] o.cls = "InverseLUFactoredSquareMatrix" ->
                Ok(h, RDiv(ROne, RProd(AbsVec(DiagonalOf(o.p.inv_lu_and_piv.lu)))))
          [] o.cls = "DenseSymmetricMatrix" ->
                LET r == SymmetricMatrix_eigval(h, i)
                IN  [r EXCEPT !.v = RProd(AbsVec(@))]
          [] o.cls \in TriangularFactoredClasses \cup DenseDefiniteClasses ->
                Bind(Invoke(h, i, "factor", None), LAMBDA f :
                    Then(Invoke(f.h, f.v, "log_abs_det", None), LAMBDA d :
                        IF IsOk(d) THEN [d EXCEPT !.v = RMul(@, @)] ELSE d))
          [] o.cls \in EigendecomposedClasses -> Ok(h, RProd(AbsVec(o.p.eigval)))
          [] o.cls \in BlockDiagonalClasses ->
                Then(MapProperty(h, o.p.blocks, "log_abs_det"), LAMBDA r :
                    IF IsOk(r) THEN [r EXCEPT !.v = RProd(@)] ELSE r)
          [] o.cls \in LowRankClasses ->
                LET s == Invoke(h, o.p.square_matrix, "log_abs_det", None)
                IN  IF ~IsOk(s) THEN s ELSE
                LET k == Invoke(s.h, o.p.inner_square_matrix, "log_abs_det", None)
                IN  IF ~IsOk(k) THEN After(s, k) ELSE
                LET c == Invoke(k.h, i, "capacitance_matrix", None)
                IN  IF ~IsOk(c) THEN After(s, After(k, c)) ELSE
                LET d == Invoke(c.h, c.v, "log_abs_det", None)
                IN  After(s, After(k, After(c,
                        [d EXCEPT !.v = RMul(s.v, RMul(k.v, @))])))
          [] OTHER -> Raise(h, "AttributeError")

(***************************************************************************)
(* Attribute lookup: the property or method that a name resolves to.       *)
(***************************************************************************)
Invoke(h, i, name, arg) ==
    CASE name = "T" -> T(h, i)
      [] name = "inv" -> inv(h, i)
      [] name = "array" -> array(h, i)
      [] name = "eigval" -> eigval(h, i)
      [] name = "eigvec" -> eigvec(h, i)
      [] name = "lu_and_piv" -> DenseSquareMatrix_lu_and_piv(h, i)
      [] name = "capacitance_matrix" ->
            IF h[i].cls = SqLR THEN SquareLowRankUpdateMatrix_capacitance_matrix(h, i)
            ELSE SymmetricLowRankUpdateMatrix_capacitance_matrix(h, i)
      [] name = "factor" -> factor(h, i)
      [] name = "sqrt" -> sqrt(h, i)
      [] name = "log_abs_det" -> log_abs_det(h, i)
      [] name = "__mul__" -> __mul__(h, i, arg)
      [] name = "__rmul__" -> __rmul__(h, i, arg)
      [] name = "__truediv__" -> __truediv__(h, i, arg)
      [] name = "__neg__" -> __neg__(h, i)
      [] name = "__matmul__" -> __matmul__(h, i, arg)
      [] name = "__rmatmul__" -> __rmatmul__(h, i, arg)

(***************************************************************************)
(* Operations on instances.  The caller starts from the instances it has   *)
(* constructed and applies public operations to any instance that exists,  *)
(* as many of them as its budget allows.                                   *)
(***************************************************************************)
Do(op, self, arg, r) ==
    /\ nops < budget
    /\ heap' = r.h
    /\ ev' = [op |-> op, self |-> self, arg |-> arg, err |-> r.err, res |-> r.v,
              log |-> r.log, before |-> heap,
              prev |-> [op |-> ev.op, self |-> ev.self, err |-> ev.err,
                        res |-> ev.res]]
    /\ nops' = nops + 1
    /\ UNCHANGED <<lrVars, budget>>

Instances == 1..Len(heap)
Scalars == {Q(0), Q(2), Q(0 - 1), <<1, 2>>}
Arrays == {M2(1, 2, 3, 4), Col2(1, 2), Row2(1, 2), M1(2)}

\* M.T
GetT == \E i \in Instances : Do("T", i, None, AsMatrix(Invoke(heap, i, "T", None)))

\* M.inv
GetInv ==
    \E i \in Instances :
        /\ heap[i].cls \in InvertibleClasses
        /\ Do("inv", i, None, AsMatrix(Invoke(heap, i, "inv", None)))

\* M.array
GetArray == \E i \in Instances : Do("array", i, None, Invoke(heap, i, "array", None))

\* M.eigval
GetEigval ==
    \E i \in Instances :
        /\ heap[i].cls \in EigenClasses
        /\ heap[i].shape[1] # NoSize
        /\ Do("eigval", i, None, Invoke(heap, i, "eigval", None))

\* M.eigvec
GetEigvec ==
    \E i \in Instances :
        /\ heap[i].cls \in EigenClasses
        /\ heap[i].shape[1] # NoSize
        /\ Do("eigvec", i, None, Invoke(heap, i, "eigvec", None))

\* M.lu_and_piv
GetLuAndPiv ==
    \E i \in Instances :
        /\ heap[i].cls = "DenseSquareMatrix"
        /\ Do("lu_and_piv", i, None, Invoke(heap, i, "lu_and_piv", None))

\* M.capacitance_matrix
GetCapacitanceMatrix ==
    \E i \in Instances :
        /\ heap[i].cls = "SquareLowRankUpdateMatrix"
        /\ Do("capacitance_matrix", i, None,
              AsMatrix(Invoke(heap, i, "capacitance_matrix", None)))

\* M.log_abs_det
GetLogAbsDet ==
    \E i \in Instances :
        /\ heap[i].cls \in LogAbsDetClasses
        /\ Do("log_abs_det", i, None, Invoke(heap, i, "log_abs_det", None))

\* M * a
ScalarMul ==
    \E i \in Instances, a \in Scalars :
        Do("__mul__", i, a, AsMatrix(Invoke(heap, i, "__mul__", a)))

\* a * M
ScalarRMul ==
    \E i \in Instances, a \in Scalars :
        Do("__rmul__", i, a, AsMatrix(Invoke(heap, i, "__rmul__", a)))

\* M / a
ScalarDiv ==
    \E i \in Instances, a \in Scalars :
        Do("__truediv__", i, a, AsMatrix(Invoke(heap, i, "__truediv__", a)))

\* -M
Negate == \E i \in Instances : Do("__neg__", i, None, AsMatrix(Invoke(heap, i, "__neg__", None)))

\* A @ B, both Matrix instances: the left operand answers with __matmul__
MatMulInstances ==
    \E i \in Instances, j \in Instances :
        Do("__matmul__", i, Mx(j), Invoke(heap, i, "__matmul__", Mx(j)))

\* A @ x, x an ndarray
MatMulArray ==
    \E i \in Instances, x \in Arrays :
        Do("__matmul__", i, Arr(x), Invoke(heap, i, "__matmul__", Arr(x)))

\* x @ A, x an ndarray: the array defers (__array_priority__) to the right
\* operand's __rmatmul__
RMatMulArray ==
    \E i \in Instances, x \in Arrays :
        Do("__rmatmul__", i, Arr(x), Invoke(heap, i, "__rmatmul__", Arr(x)))

(***************************************************************************)
(* What the caller has constructed when the operations start.              *)
(***************************************************************************)
Empty == <<>>
A22 == M2(1, 2, 3, 4)
Swap == M2(0, 1, 1, 0)
Diag31 == M2(3, 0, 0, 1)

\* one instance of a structured class
LeafScenes ==
    {IdentityMatrix(Empty, NoSize).h,
     IdentityMatrix(Empty, 2).h,
     ScaledIdentityMatrix(Empty, Q(2), 2).h,
     ScaledIdentityMatrix(Empty, Q(0 - 3), NoSize).h,
     PositiveScaledIdentityMatrix(Empty, <<1, 2>>, 2).h,
     DiagonalMatrix(Empty, <<Q(2), Q(0 - 3)>>).h,
     PositiveDiagonalMatrix(Empty, <<Q(1), Q(4)>>).h,
     OrthogonalMatrix(Empty, Swap).h,
     ScaledOrthogonalMatrix(Empty, Q(2), M2(0, 0 - 1, 1, 0)).h,
     DenseRectangularMatrix(Empty, Row2(1, 2)).h,
     DenseRectangularMatrix(Empty, Col2(1, 2)).h}

\* the triangular pair; the array argument need not be triangular itself
TriangularScenes ==
    {TriangularMatrix(Empty, M2(2, 1, 1, 3), TRUE).h,
     TriangularMatrix(Empty, M2(2, 1, 0, 3), FALSE).h,
     InverseTriangularMatrix(Empty, M2(2, 0, 1, 3), TRUE).h,
     InverseTriangularMatrix(Empty, M2(2, 1, 1, 3), TRUE).h,
     InverseTriangularMatrix(Empty, M2(1, 2, 0, 4), FALSE).h}

\* the LU pair, the factorisation omitted or supplied (of array or array.T)
LUScenes ==
    {DenseSquareMatrix(Empty, A22, None, None).h,
     DenseSquareMatrix(Empty, M1(0 - 2), None, None).h,
     DenseSquareMatrix(Empty, A22, Some(lu_factor(A22)), Some(FALSE)).h,
     DenseSquareMatrix(Empty, A22, Some(lu_factor(Transpose(A22))), Some(TRUE)).h,
     InverseLUFactoredSquareMatrix(Empty, A22, lu_factor(A22), FALSE).h,
     InverseLUFactoredSquareMatrix(Empty, A22, lu_factor(Transpose(A22)), TRUE).h}

\* dense symmetric matrices, the eigendecomposition omitted, supplied in
\* part or supplied whole
SymmetricScenes ==
    {DenseSymmetricMatrix(Empty, Diag31, None, None).h,
     DenseSymmetricMatrix(Empty, Diag31, Some(Arr(Identity(2))), None).h,
     DenseSymmetricMatrix(Empty, Diag31, None, Some(<<Q(3), Q(1)>>)).h,
     DenseSymmetricMatrix(Empty, Diag31, Some(Arr(Swap)), Some(<<Q(1), Q(3)>>)).h,
     DenseSymmetricMatrix(Empty, M1(5), None, None).h}

\* a product chain of A and B
ChainScene ==
    LET a == TriangularMatrix(Empty, M2(2, 0, 1, 3), TRUE)
        b == DiagonalMatrix(a.h, <<Q(2), Q(5)>>)
    IN  MatrixProduct(b.h, <<a.v, b.v>>).h

\* two blocks shared by a block-diagonal, a block-row and a block-column matrix
BlockScene ==
    LET x == TriangularMatrix(Empty, M1(2), TRUE)
        y == DenseSquareMatrix(x.h, M1(3), None, None)
        d == SquareBlockDiagonalMatrix(y.h, <<x.v, y.v>>)
        r == BlockRowMatrix(d.h, <<x.v, y.v>>)
    IN  BlockColumnMatrix(r.h, <<x.v, y.v>>).h

\* a low-rank update S + sign * L K R with K omitted (the identity)
LowRankScene(sign) ==
    LET l == DenseRectangularMatrix(Empty, Col2(1, 0))
        r == DenseRectangularMatrix(l.h, Row2(1, 2))
        sq == TriangularMatrix(r.h, M2(2, 0, 1, 1), TRUE)
    IN  NewSquareLowRankUpdateMatrix(sq.h, l.v, r.v, sq.v, None, None, sign).h

CompositeScenes == {ChainScene, BlockScene, LowRankScene(1), LowRankScene(0 - 1)}

\* operands for @: square and rectangular matrices, an implicitly sized
\* identity and a chain
ComposeScene ==
    LET a == TriangularMatrix(Empty, M2(2, 0, 1, 3), TRUE)
        b == DenseRectangularMatrix(a.h, Col2(1, 2))
        c == IdentityMatrix(b.h, NoSize)
        d == DiagonalMatrix(c.h, <<Q(2), Q(5)>>)
    IN  MatrixProduct(d.h, <<a.v, d.v>>).h

NoLowRank == <<>>
ObjInit(scenes, n) ==
    /\ heap \in scenes
    /\ ev = NoEvent
    /\ nops = 0
    /\ budget = n
    /\ lrM = NoLowRank
    /\ lrOut = [op |-> "new"]
    /\ lrSteps = 0

AllScenes ==
    LeafScenes \cup TriangularScenes \cup LUScenes \cup SymmetricScenes
        \cup CompositeScenes \cup {ComposeScene}

\* structure: transposes, inverses and the memoised properties
StructInit == ObjInit(AllScenes, MaxStructOps)
StructNext ==
    \/ GetT
    \/ GetInv
    \/ GetArray
    \/ GetEigval
    \/ GetEigvec
    \/ GetLuAndPiv
    \/ GetCapacitanceMatrix
    \/ GetLogAbsDet
SpecStruct == StructInit /\ [][StructNext]_vars

\* composition with @
ComposeInit == ObjInit({ComposeScene}, MaxComposeOps)
ComposeNext ==
    \/ MatMulInstances
    \/ MatMulArray
    \/ RMatMulArray
SpecCompose == ComposeInit /\ [][ComposeNext]_vars

\* every public operation on every scene
MatrixInit == ObjInit(AllScenes, MaxMatrixOps)
MatrixNext ==
    \/ GetT
    \/ GetInv
    \/ GetArray
    \/ GetEigval
    \/ GetEigvec
    \/ GetLuAndPiv
    \/ GetCapacitanceMatrix
    \/ GetLogAbsDet
    \/ ScalarMul
    \/ ScalarRMul
    \/ ScalarDiv
    \/ Negate
    \/ MatMulInstances
    \/ MatMulArray
    \/ RMatMulArray
SpecMatrix == MatrixInit /\ [][MatrixNext]_vars

(***************************************************************************)
(* C4: A @ B with A of known column count and B (a matrix or an array) of  *)
(* a different row count, and x @ A with an array x whose trailing         *)
(* dimension differs from A's known row count, raise ValueError before any *)
(* structure-specific multiply runs; no chain is created and no instance   *)
(* changes.                                                                *)
(***************************************************************************)
MismatchedMatMul ==
    \/ /\ ev.op = "__matmul__"
       /\ ev.before[ev.self].shape[2] # NoSize
       /\ OperandShape(ev.before, ev.arg)[1] # ev.before[ev.self].shape[2]
    \/ /\ ev.op = "__rmatmul__"
       /\ ev.before[ev.self].shape[1] # NoSize
       /\ OperandShape(ev.before, ev.arg)[2] # ev.before[ev.self].shape[1]

C4_DimensionMismatchRejected ==
    MismatchedMatMul =>
        /\ ev.err = "ValueError"
        /\ ev.log = <<>>
        /\ heap = ev.before

C4_Witness ==
    /\ MismatchedMatMul
    /\ ev.op = "__matmul__"
    /\ IsMatrix(ev.arg)
    /\ ev.err = "ValueError"

(***************************************************************************)
(* C5: after any sequence of @ compositions, with a chain as the left      *)
(* operand, the right operand or both, every MatrixProduct is flat: none   *)
(* of its factors is itself a MatrixProduct.                               *)
(***************************************************************************)
IsFlat(h, i) ==
    \A k \in 1..Len(h[i].p.matrices) : h[h[i].p.matrices[k]].cls # "MatrixProduct"

C5_ChainsAreFlat ==
    \A i \in Instances : heap[i].cls = "MatrixProduct" => IsFlat(heap, i)

(***************************************************************************)
(* C6: M * 0, 0 * M and M / 0 raise NotImplementedError without calling    *)
(* the variant's _scalar_multiply, creating no matrix and leaving M        *)
(* unchanged; every nonzero scalar a reaches _scalar_multiply, as 1/a for  *)
(* division.                                                               *)
(***************************************************************************)
C6_ZeroScalarRejected ==
    ev.op \in {"__mul__", "__rmul__", "__truediv__"} =>
        IF RIsZero(ev.arg)
        THEN /\ ev.err = "NotImplementedError"
             /\ ev.log = <<>>
             /\ heap = ev.before
        ELSE /\ Len(ev.log) >= 1
             /\ ev.log[1] = <<"_scalar_multiply", ev.self,
                              IF ev.op = "__truediv__" THEN RDiv(ROne, ev.arg)
                              ELSE ev.arg>>

C6_Witness ==
    /\ ev.op = "__rmul__"
    /\ RIsZero(ev.arg)
    /\ ev.err = "NotImplementedError"
    /\ ev.before[ev.self].cls = "SquareLowRankUpdateMatrix"

(***************************************************************************)
(* C7: a memo cache of an instance, once populated (a value supplied at    *)
(* construction included), is never overwritten or cleared by an           *)
(* operation.                                                              *)
(***************************************************************************)
C7_CachesWriteOnce ==
    \A i \in 1..Len(ev.before) :
        \A k \in DOMAIN ev.before[i].c :
            ~IsNone(ev.before[i].c[k]) => heap[i].c[k] = ev.before[i].c[k]

RECURSIVE SameStructure(_, _, _)
SameChildren(h, xs, ys) ==
    /\ Len(xs) = Len(ys)
    /\ \A k \in 1..Len(xs) : SameStructure(h, xs[k], ys[k])

SameStructure(h, a, b) ==
    \/ a = b
    \/ /\ h[a].cls = h[b].cls
       /\ h[a].shape = h[b].shape
       /\ CASE h[a].cls = "MatrixProduct" ->
                 SameChildren(h, h[a].p.matrices, h[b].p.matrices)
            [] h[a].cls \in {"SquareBlockDiagonalMatrix", "BlockRowMatrix",
                             "BlockColumnMatrix"} ->
                 /\ SameChildren(h, h[a].p.blocks, h[b].p.blocks)
                 /\ h[a].p.splits = h[b].p.splits
            [] h[a].cls = "SquareLowRankUpdateMatrix" ->
                 /\ h[a].p.sign = h[b].p.sign
                 /\ SameChildren(h,
                        <<h[a].p.left_factor_matrix, h[a].p.right_factor_matrix,
                          h[a].p.square_matrix, h[a].p.inner_square_matrix>>,
                        <<h[b].p.left_factor_matrix, h[b].p.right_factor_matrix,
                          h[b].p.square_matrix, h[b].p.inner_square_matrix>>)
            [] h[a].cls = "DenseSquareMatrix" ->
                 /\ h[a].p = h[b].p
                 /\ h[a].c.lu_transposed = h[b].c.lu_transposed
            [] OTHER -> h[a].p = h[b].p

DoubleTranspose ==
    /\ ev.op = "T" /\ ev.err = "ok"
    /\ ev.prev.op = "T" /\ ev.prev.err = "ok"
    /\ ev.self = ev.prev.res.id

TriangularPair == {"TriangularMatrix", "InverseTriangularMatrix"}
LUPair == {"DenseSquareMatrix", "InverseLUFactoredSquareMatrix"}
Partner(cls) ==
    CASE cls = "TriangularMatrix" -> "InverseTriangularMatrix"
      [] cls = "InverseTriangularMatrix" -> "TriangularMatrix"
      [] cls = "DenseSquareMatrix" -> "InverseLUFactoredSquareMatrix"
      [] cls = "InverseLUFactoredSquareMatrix" -> "DenseSquareMatrix"
\* the array an instance of a paired class holds
HeldArray(o) ==
    CASE o.cls \in {"TriangularMatrix", "DenseSquareMatrix"} -> o.p.array
      [] o.cls = "InverseTriangularMatrix" -> o.p.inverse_array
      [] o.cls = "InverseLUFactoredSquareMatrix" -> o.p.inv_array
\* the factorisation an instance of the LU pair holds, with its flag
HeldLU(o) ==
    IF o.cls = "DenseSquareMatrix" THEN <<o.c.lu_and_piv, o.c.lu_transposed>>
    ELSE <<Some(o.p.inv_lu_and_piv), Some(o.p.inv_lu_transposed)>>
\* the triangle of the held array that the class reads
HeldTriangle(o) ==
    IF o.cls \in TriangularPair THEN Tri(HeldArray(o), o.p.lower) ELSE HeldArray(o)
Factorizations(log) == {k \in 1..Len(log) : log[k][1] = "lu_factor"}

InverseOfInverse ==
    /\ ev.op = "inv" /\ ev.err = "ok"
    /\ ev.prev.op = "inv" /\ ev.prev.err = "ok"
    /\ ev.self = ev.prev.res.id
    /\ heap[ev.prev.self].cls \in TriangularPair \cup LUPair

RoundTrip(held(_)) ==
    LET m == heap[ev.prev.self]
        mi == heap[ev.self]
        mii == heap[ev.res.id]
    IN  /\ mi.cls = Partner(m.cls)
        /\ held(mi) = held(m)
        /\ mii.cls = m.cls
        /\ held(mii) = held(m)
        /\ m.cls \in TriangularPair =>
              mi.p.lower = m.p.lower /\ mii.p.lower = m.p.lower
        /\ m.cls \in LUPair =>
              HeldLU(mi) = HeldLU(m) /\ HeldLU(mii) = HeldLU(m)
        /\ Factorizations(ev.log) = {}

\* as stated: the very array is handed on
C10_InvRoundTripSameArray == InverseOfInverse => RoundTrip(HeldArray)

\* amended: what is handed on unchanged is the triangle the class reads (the
\* array itself for the LU pair and for arrays that are already triangular),
\* and M.inv.inv denotes the matrix M denotes
C10_InvRoundTripSameTriangle ==
    InverseOfInverse =>
        /\ RoundTrip(HeldTriangle)
        /\ Dense(heap, ev.res.id) = Dense(heap, ev.prev.self)

C10_Witness ==
    /\ InverseOfInverse
    /\ heap[ev.prev.self].cls = "InverseTriangularMatrix"
    /\ HeldArray(heap[ev.res.id]) # HeldArray(heap[ev.prev.self])

(***************************************************************************)
(* Construction by the caller: the arguments are instances that already    *)
(* exist (and scalars, arrays), each call either returns a new instance or *)
(* raises.                                                                 *)
(***************************************************************************)
MaxConstructOps == 1

OfShape(h, shape) == {i \in 1..Len(h) : h[i].shape = shape}
OfClass(h, cls) == {i \in 1..Len(h) : h[i].cls = cls}
Optional(S) == {None} \cup {Some(x) : x \in S}
ShapeChoices == {<<1, 1>>, <<2, 2>>}

\* SymmetricLowRankUpdateMatrix(factor, symmetric, inner, None, sign) and
\* PositiveDefiniteLowRankUpdateMatrix(factor, pos_def, inner, None, sign)
ConstructSymmetricLowRank ==
    \E cls \in {SymLR, PosDefLR}, f \in OfClass(heap, "DenseRectangularMatrix"),
       shape \in ShapeChoices, sg \in Signs :
        \E s \in OfShape(heap, shape), k \in Optional(OfShape(heap, <<1, 1>>)) :
            Do("__init__", 0,
               [cls |-> cls, factor |-> f, symmetric |-> s, inner |-> k,
                sign |-> sg],
               AsMatrix(NewSymmetricLowRankUpdateMatrix(heap, cls, f, s, k, None, sg)))

\* SquareLowRankUpdateMatrix(left, right, square, inner, None, sign)
ConstructSquareLowRank ==
    \E l \in OfClass(heap, "DenseRectangularMatrix"),
       r \in OfClass(heap, "DenseRectangularMatrix"), sg \in Signs :
        \E s \in OfShape(heap, <<2, 2>>), k \in Optional(OfShape(heap, <<1, 1>>)) :
            Do("__init__", 0,
               [cls |-> SqLR, left |-> l, right |-> r, square |-> s, inner |-> k,
                sign |-> sg],
               AsMatrix(NewSquareLowRankUpdateMatrix(heap, l, r, s, k, None, sg)))

\* ScaledIdentityMatrix(scalar, size), PositiveScaledIdentityMatrix(scalar,
\* size) and ScaledOrthogonalMatrix(scalar, orth_array)
ScalarParameterised ==
    {"ScaledIdentityMatrix", "PositiveScaledIdentityMatrix",
     "ScaledOrthogonalMatrix"}
ConstructScaled ==
    \E scalar \in Scalars :
        \/ \E size \in {NoSize, 2} :
              \/ Do("__init__", 0,
                    [cls |-> "ScaledIdentityMatrix", scalar |-> scalar,
                     size |-> size],
                    AsMatrix(ScaledIdentityMatrix(heap, scalar, size)))
              \/ Do("__init__", 0,
                    [cls |-> "PositiveScaledIdentityMatrix", scalar |-> scalar,
                     size |-> size],
                    AsMatrix(PositiveScaledIdentityMatrix(heap, scalar, size)))
        \/ \E orth_array \in {Swap, M1(1)} :
              Do("__init__", 0,
                 [cls |-> "ScaledOrthogonalMatrix", scalar |-> scalar,
                  orth_array |-> orth_array],
                 AsMatrix(ScaledOrthogonalMatrix(heap, scalar, orth_array)))

\* the instances the caller holds before constructing: rectangular factors,
\* 2x2 bases and 1x1 inner matrices, symmetric or not, positive definite or not
ConstructScene ==
    LET a == DenseRectangularMatrix(Empty, Col2(3, 0))
        b == DenseRectangularMatrix(a.h, Row2(1, 2))
        c == DiagonalMatrix(b.h, <<Q(2), Q(0 - 3)>>)
        d == PositiveDiagonalMatrix(c.h, <<Q(16), Q(1)>>)
        e == DenseSquareMatrix(d.h, A22, None, None)
        f == IdentityMatrix(e.h, 1)
        g == DiagonalMatrix(f.h, <<Q(0 - 3)>>)
    IN  TriangularMatrix(g.h, M1(2), TRUE).h

ConstructInit == ObjInit({ConstructScene}, MaxConstructOps)
ConstructNext ==
    \/ ConstructSymmetricLowRank
    \/ ConstructSquareLowRank
    \/ ConstructScaled
SpecConstruct == ConstructInit /\ [][ConstructNext]_vars

(***************************************************************************)
(* C11: a symmetric low-rank update is constructed only on a symmetric     *)
(* base matrix S and a symmetric inner matrix K, a positive-definite       *)
(* low-rank update only on positive-definite S and K; in both the right    *)
(* factor of a constructed instance is the transpose of its left factor,   *)
(* which is the factor given.                                              *)
(***************************************************************************)
Constructed(classes) ==
    /\ ev.op = "__init__"
    /\ ev.arg.cls \in classes
    /\ ev.err = "ok"

C11_LowRankOperandsChecked ==
    Constructed({SymLR, PosDefLR}) =>
        LET S == ev.before[ev.arg.symmetric]
            m == heap[ev.res.id]
        IN  /\ S.cls \in SymmetricClasses
            /\ ~IsNone(ev.arg.inner)
            /\ ev.before[Get(ev.arg.inner)].cls \in SymmetricClasses
            /\ ev.arg.cls = PosDefLR =>
                  /\ S.cls \in PositiveDefiniteClasses
                  /\ ev.before[Get(ev.arg.inner)].cls \in PositiveDefiniteClasses
            /\ m.p.left_factor_matrix = ev.arg.factor
            /\ Dense(heap, m.p.right_factor_matrix)
                  = Transpose(Dense(heap, m.p.left_factor_matrix))

(***************************************************************************)
(* C12: for the square, the symmetric and the positive-definite low-rank   *)
(* update alike, construction with the inner matrix omitted (None) and     *)
(* otherwise acceptable arguments succeeds, and the inner matrix of the    *)
(* instance is an identity matrix of size dim_inner.                       *)
(***************************************************************************)
OmittedInner ==
    /\ ev.op = "__init__"
    /\ ev.arg.cls \in LowRankClasses
    /\ IsNone(ev.arg.inner)

\* the arguments other than the inner matrix are ones the class accepts
OtherArgumentsFit ==
    LET h == ev.before
    IN  IF ev.arg.cls = SqLR
        THEN /\ h[ev.arg.square].shape[1] = h[ev.arg.left].shape[1]
             /\ h[ev.arg.right].shape
                   = <<h[ev.arg.left].shape[2], h[ev.arg.left].shape[1]>>
        ELSE /\ h[ev.arg.symmetric].shape[1] = h[ev.arg.factor].shape[1]
             /\ h[ev.arg.symmetric].cls \in
                   IF ev.arg.cls = SymLR THEN SymmetricClasses
                   ELSE PositiveDefiniteClasses

C12_OmittedInnerIsIdentity ==
    (OmittedInner /\ OtherArgumentsFit) =>
        /\ ev.err = "ok"
        /\ LET m == heap[ev.res.id]
               K == heap[m.p.inner_square_matrix]
               dim_inner == heap[m.p.left_factor_matrix].shape[2]
           IN  /\ K.cls = "IdentityMatrix"
               /\ K.shape = <<dim_inner, dim_inner>>

(***************************************************************************)
(* C13: ScaledIdentityMatrix, PositiveScaledIdentityMatrix and             *)
(* ScaledOrthogonalMatrix all raise when constructed with a zero scalar,   *)
(* so no instance of these classes holds a zero scalar.                    *)
(***************************************************************************)
C13_ZeroScalarNeverConstructed ==
    /\ (/\ ev.op = "__init__"
        /\ ev.arg.cls \in ScalarParameterised
        /\ RIsZero(ev.arg.scalar)) => ev.err # "ok"
    /\ \A i \in Instances :
          heap[i].cls \in ScalarParameterised => ~RIsZero(heap[i].p.scalar)

(***************************************************************************)
(* C14: on an identity or scaled identity matrix constructed without a     *)
(* size, array raises the size-required error and an array is still        *)
(* multiplied by it; log_abs_det raises the size-required error as well.   *)
(***************************************************************************)
ImplicitlySized ==
    /\ ev.op \in {"array", "log_abs_det", "__matmul__", "__rmatmul__"}
    /\ ev.before[ev.self].cls \in
          {"IdentityMatrix", "ScaledIdentityMatrix", "PositiveScaledIdentityMatrix"}
    /\ ev.before[ev.self].shape = <<NoSize, NoSize>>

\* the scalar an identity or scaled identity multiplies by
ScalarOf(o) == IF o.cls = "IdentityMatrix" THEN ROne ELSE o.p.scalar

ArrayNeedsSizeProductDoesNot ==
    /\ ev.op = "array" => ev.err = "RuntimeError" /\ heap = ev.before
    /\ (ev.op \in {"__matmul__", "__rmatmul__"} /\ ~IsMatrix(ev.arg)) =>
          /\ ev.err = "ok"
          /\ ev.res = Arr(MatScale(ScalarOf(ev.before[ev.self]), ev.arg.array))

\* as stated: log_abs_det of either class needs the size
C14_ImplicitSizeRequired ==
    ImplicitlySized =>
        /\ ArrayNeedsSizeProductDoesNot
        /\ ev.op = "log_abs_det" => ev.err = "RuntimeError"

\* amended: log_abs_det needs the size of a scaled identity only; of an
\* implicitly sized identity it is 0 (|det| = 1)
C14_ImplicitSizeRequiredWhereUsed ==
    ImplicitlySized =>
        /\ ArrayNeedsSizeProductDoesNot
        /\ ev.op = "log_abs_det" =>
              IF ev.before[ev.self].cls = "IdentityMatrix"
              THEN ev.err = "ok" /\ ev.res = ROne /\ heap = ev.before
              ELSE ev.err = "RuntimeError" /\ heap = ev.before

C14_Witness ==
    /\ ImplicitlySized
    /\ ev.op = "log_abs_det"
    /\ ev.before[ev.self].cls = "IdentityMatrix"
    /\ ev.err = "ok"

(***************************************************************************)
(* Block rows and block columns: the caller stacks instances it holds,     *)
(* transposes and scales.                                                  *)
(***************************************************************************)
MaxBlockOps == 2

BlockTuples == {<<i>> : i \in Instances} \cup (Instances \X Instances)

\* BlockRowMatrix(blocks)
ConstructBlockRow ==
    \E blocks \in BlockTuples :
        Do("__init__", 0, [cls |-> "BlockRowMatrix", blocks |-> blocks],
           AsMatrix(BlockRowMatrix(heap, blocks)))

\* BlockColumnMatrix(blocks)
ConstructBlockColumn ==
    \E blocks \in BlockTuples :
        Do("__init__", 0, [cls |-> "BlockColumnMatrix", blocks |-> blocks],
           AsMatrix(BlockColumnMatrix(heap, blocks)))

\* blocks to stack: 2x1, 2x2 and 1x2 ones and an implicitly sized identity
BlockPoolScene ==
    LET a == DenseRectangularMatrix(Empty, Col2(1, 2))
        b == DiagonalMatrix(a.h, <<Q(2), Q(5)>>)
        c == DenseRectangularMatrix(b.h, Row2(1, 2))
    IN  IdentityMatrix(c.h, NoSize).h

BlocksInit == ObjInit({BlockPoolScene}, MaxBlockOps)
BlocksNext ==
    \/ ConstructBlockRow
    \/ ConstructBlockColumn
    \/ GetT
    \/ ScalarMul
SpecBlocks == BlocksInit /\ [][BlocksNext]_vars

(***************************************************************************)
(* C16: the blocks of every block-row (block-column) matrix share one row  *)
(* (column) count and its shape is (shared rows, sum of block columns)     *)
(* (respectively (sum of block rows, shared columns)); constructing one    *)
(* from blocks that do not share it fails; T turns a block row of          *)
(* (B1..Bk) into the block column of (B1.T..Bk.T), in the same order, and  *)
(* a block column into the block row likewise; scalar multiplication       *)
(* scales each block in place.                                             *)
(***************************************************************************)
\* the axis the blocks share: rows (1) in a block row, columns (2) in a column
SharedAxis(cls) == IF cls = "BlockRowMatrix" THEN 1 ELSE 2
Aligned(h, blocks, axis) ==
    \A j, k \in 1..Len(blocks) : h[blocks[j]].shape[axis] = h[blocks[k]].shape[axis]
StackClasses == {"BlockRowMatrix", "BlockColumnMatrix"}
WellStacked(h, i) ==
    LET o == h[i]
        axis == SharedAxis(o.cls)
        other == 3 - axis
    IN  /\ Len(o.p.blocks) >= 1
        /\ Aligned(h, o.p.blocks, axis)
        /\ o.shape[axis] = h[o.p.blocks[1]].shape[axis]
        /\ o.shape[axis] # NoSize
        /\ o.shape[other] = SumSeq(ShapesOf(h, o.p.blocks, other))
        /\ \A k \in 1..Len(o.p.blocks) : h[o.p.blocks[k]].shape[other] # NoSize

StackOperation(op) ==
    /\ ev.op = op
    /\ ev.err = "ok"
    /\ ev.before[ev.self].cls \in StackClasses

C16_StacksStayAligned ==
    /\ \A i \in Instances : heap[i].cls \in StackClasses => WellStacked(heap, i)
    /\ (/\ ev.op = "__init__"
        /\ ev.arg.cls \in StackClasses
        /\ ~Aligned(ev.before, ev.arg.blocks, SharedAxis(ev.arg.cls))) =>
            ev.err # "ok" /\ heap = ev.before
    /\ StackOperation("T") =>
          LET m == ev.before[ev.self]
              t == heap[ev.res.id]
          IN  /\ t.cls \in StackClasses \ {m.cls}
              /\ Len(t.p.blocks) = Len(m.p.blocks)
              /\ \A k \in 1..Len(m.p.blocks) :
                    Dense(heap, t.p.blocks[k])
                        = Transpose(Dense(ev.before, m.p.blocks[k]))
    /\ StackOperation("__mul__") =>
          LET m == ev.before[ev.self]
              t == heap[ev.res.id]
          IN  /\ t.cls = m.cls
              /\ t.shape = m.shape
              /\ Len(t.p.blocks) = Len(m.p.blocks)
              /\ \A k \in 1..Len(m.p.blocks) :
                    Dense(heap, t.p.blocks[k])
                        = MatScale(ev.arg, Dense(ev.before, m.p.blocks[k]))

C16_Witness ==
    /\ StackOperation("T")
    /\ ev.before[ev.self].cls = "BlockRowMatrix"
    /\ heap[ev.res.id].cls = "BlockColumnMatrix"
    /\ LET blocks == ev.before[ev.self].p.blocks
       IN  /\ Len(blocks) = 2
           /\ ev.before[blocks[1]].shape # ev.before[blocks[2]].shape

(***************************************************************************)
(* The definite and positive-definite classes.  The caller holds instances *)
(* of them and constructs more, scales them and reads factor, inv, sqrt,   *)
(* log_abs_det, array and T.  Scalars and arrays are those whose square    *)
(* roots and Cholesky factors are rational; an operation that would make   *)
(* an irrational backend call is not taken.                                *)
(***************************************************************************)
MaxDefiniteOps == 1

L22 == M2(2, 0, 1, 1)
\* L22 @ L22.T, positive definite, and its negative
P22 == M2(4, 2, 2, 2)
N22 == M2(0 - 4, 0 - 2, 0 - 2, 0 - 2)
SquareScalars == {Q(0), Q(4), Q(0 - 1), Q(0 - 4), <<1, 4>>}
DefiniteClasses == TriangularFactoredClasses \cup DenseDefiniteClasses

TriangularFactoredScene ==
    LET a == TriangularMatrix(Empty, L22, TRUE)
        b == TriangularFactoredDefiniteMatrix(a.h, Mx(a.v), 0 - 1, None)
        c == TriangularFactoredPositiveDefiniteMatrix(b.h, Arr(M1(2)), Some(TRUE))
        d == InverseTriangularMatrix(c.h, L22, TRUE)
    IN  TriangularFactoredDefiniteMatrix(d.h, Mx(d.v), 1, None).h

\* dense definite instances with a right and with a wrong definiteness flag,
\* and one that was given its factor
DenseDefiniteScene ==
    LET a == DenseDefiniteMatrix(Empty, P22, None, TRUE)
        b == DenseDefiniteMatrix(a.h, N22, None, FALSE)
        c == DenseDefiniteMatrix(b.h, P22, None, FALSE)
        d == DensePositiveDefiniteMatrix(c.h, N22, None)
        e == TriangularMatrix(d.h, L22, TRUE)
    IN  DensePositiveDefiniteMatrix(e.h, P22, Some(e.v)).h

PositiveScene ==
    LET a == PositiveScaledIdentityMatrix(Empty, Q(4), 2)
        b == PositiveScaledIdentityMatrix(a.h, <<1, 4>>, NoSize)
        c == PositiveDiagonalMatrix(b.h, <<Q(16), Q(1)>>)
        d == EigendecomposedPositiveDefiniteMatrix(c.h, Arr(Swap), <<Q(4), Q(9)>>)
    IN  EigendecomposedPositiveDefiniteMatrix(d.h, Arr(M1(1)), <<Q(4)>>).h

\* positive-definite block-diagonal matrices over identity, positive
\* diagonal, triangular-factored and dense positive-definite blocks
BlockDiagonalScene ==
    LET a == IdentityMatrix(Empty, 1)
        b == PositiveDiagonalMatrix(a.h, <<Q(16), Q(1)>>)
        c == PositiveDefiniteBlockDiagonalMatrix(b.h, <<a.v, b.v>>)
        d == TriangularFactoredPositiveDefiniteMatrix(c.h, Arr(L22), Some(TRUE))
        e == DensePositiveDefiniteMatrix(d.h, P22, None)
    IN  PositiveDefiniteBlockDiagonalMatrix(e.h, <<d.v, e.v>>).h

\* ... and over eigendecomposed and positive-definite low-rank update blocks
LowRankBlockScene ==
    Then(EigendecomposedPositiveDefiniteMatrix(Empty, Arr(Swap), <<Q(4), Q(9)>>),
         LAMBDA a :
    Then(DenseRectangularMatrix(a.h, Col2(3, 0)), LAMBDA f :
    Then(PositiveDiagonalMatrix(f.h, <<Q(16), Q(1)>>), LAMBDA s :
    Then(IdentityMatrix(s.h, 1), LAMBDA k :
    Then(NewSymmetricLowRankUpdateMatrix(k.h, PosDefLR, f.v, s.v, Some(k.v),
                                         None, 1), LAMBDA m :
    Then(PositiveDefiniteBlockDiagonalMatrix(m.h, <<a.v>>), LAMBDA c :
        PositiveDefiniteBlockDiagonalMatrix(c.h, <<a.v, m.v>>).h))))))

DefiniteScenes ==
    {TriangularFactoredScene, DenseDefiniteScene, PositiveScene,
     BlockDiagonalScene, LowRankBlockScene}

\* an operation of the caller, taken where the backend stays rational
DoExact(op, self, arg, r) ==
    nops < budget /\ r.err # Irrational /\ Do(op, self, arg, r)

\* TriangularFactoredDefiniteMatrix(factor, sign, factor_is_lower) and
\* TriangularFactoredPositiveDefiniteMatrix(factor, factor_is_lower)
ConstructTriangularFactored ==
    \E fac \in {Arr(L22)} \cup {Mx(i) : i \in OfClass(heap, "TriangularMatrix")},
       factor_is_lower \in Optional(BOOLEAN) :
        \/ \E sign \in {1, 0 - 1, 0, 2} :
              DoExact("__init__", 0,
                      [cls |-> "TriangularFactoredDefiniteMatrix", factor |-> fac,
                       sign |-> sign, factor_is_lower |-> factor_is_lower],
                      AsMatrix(TriangularFactoredDefiniteMatrix(
                                   heap, fac, sign, factor_is_lower)))
        \/ DoExact("__init__", 0,
                   [cls |-> "TriangularFactoredPositiveDefiniteMatrix",
                    factor |-> fac, sign |-> 1,
                    factor_is_lower |-> factor_is_lower],
                   AsMatrix(TriangularFactoredPositiveDefiniteMatrix(
                                heap, fac, factor_is_lower)))

\* DenseDefiniteMatrix(array, factor, is_posdef) and
\* DensePositiveDefiniteMatrix(array, factor)
ConstructDenseDefinite ==
    \E arr \in {P22, N22, M1(4), M1(0 - 4)},
       tri \in Optional(OfClass(heap, "TriangularMatrix")) :
        \/ \E is_posdef \in BOOLEAN :
              DoExact("__init__", 0,
                      [cls |-> "DenseDefiniteMatrix", array |-> arr,
                       factor |-> tri, is_posdef |-> is_posdef],
                      AsMatrix(DenseDefiniteMatrix(heap, arr, tri, is_posdef)))
        \/ DoExact("__init__", 0,
                   [cls |-> "DensePositiveDefiniteMatrix", array |-> arr,
                    factor |-> tri, is_posdef |-> TRUE],
                   AsMatrix(DensePositiveDefiniteMatrix(heap, arr, tri)))

\* PositiveScaledIdentityMatrix(scalar, size), PositiveDiagonalMatrix(diagonal)
\* and EigendecomposedPositiveDefiniteMatrix(eigvec, eigval), on floats of
\* either sign, zero and nan
Floats == {Q(4), Q(0), Q(0 - 1), NaN}
ConstructPositive ==
    \E x \in Floats, y \in {Q(1), Q(0 - 9)} :
        \/ \E size \in {NoSize, 2} :
              DoExact("__init__", 0,
                      [cls |-> "PositiveScaledIdentityMatrix", scalar |-> x,
                       size |-> size],
                      AsMatrix(PositiveScaledIdentityMatrix(heap, x, size)))
        \/ DoExact("__init__", 0,
                   [cls |-> "PositiveDiagonalMatrix", diagonal |-> <<y, x>>],
                   AsMatrix(PositiveDiagonalMatrix(heap, <<y, x>>)))
        \/ DoExact("__init__", 0,
                   [cls |-> "EigendecomposedPositiveDefiniteMatrix",
                    eigvec |-> Arr(Swap), eigval |-> <<y, x>>],
                   AsMatrix(EigendecomposedPositiveDefiniteMatrix(
                                heap, Arr(Swap), <<y, x>>)))

\* M * a
DefiniteScalarMul ==
    \E i \in Instances, a \in SquareScalars :
        DoExact("__mul__", i, a, AsMatrix(Invoke(heap, i, "__mul__", a)))

\* M.factor
DefiniteFactor ==
    \E i \in Instances :
        /\ heap[i].cls \in DefiniteClasses
        /\ DoExact("factor", i, None, AsMatrix(Invoke(heap, i, "factor", None)))

\* M.inv
DefiniteInv ==
    \E i \in Instances :
        DoExact("inv", i, None, AsMatrix(Invoke(heap, i, "inv", None)))

\* M.sqrt
DefiniteSqrt ==
    \E i \in Instances :
        DoExact("sqrt", i, None, AsMatrix(Invoke(heap, i, "sqrt", None)))

\* M.log_abs_det
DefiniteLogAbsDet ==
    \E i \in Instances :
        DoExact("log_abs_det", i, None, Invoke(heap, i, "log_abs_det", None))

\* M.array
DefiniteArray ==
    \E i \in Instances : DoExact("array", i, None, Invoke(heap, i, "array", None))

DefiniteInit == ObjInit(DefiniteScenes, MaxDefiniteOps)
DefiniteNext ==
    \/ ConstructTriangularFactored
    \/ ConstructDenseDefinite
    \/ ConstructPositive
    \/ DefiniteScalarMul
    \/ DefiniteFactor
    \/ DefiniteInv
    \/ DefiniteSqrt
    \/ DefiniteLogAbsDet
    \/ DefiniteArray
    \/ GetT
SpecDefinite == DefiniteInit /\ [][DefiniteNext]_vars

(***************************************************************************)
(* C17: the sign of every triangular-factored or dense definite matrix is  *)
(* +1 or -1, a construction with another sign raises, and the product of   *)
(* such a matrix of sign s with a nonzero scalar a has sign s * sign(a): a *)
(* negative-definite dense matrix times a negative scalar is a             *)
(* DensePositiveDefiniteMatrix, a positive-definite one times a negative   *)
(* scalar is negative definite.                                            *)
(***************************************************************************)
ScaledDefinite ==
    /\ ev.op = "__mul__"
    /\ ev.before[ev.self].cls \in DefiniteClasses
    /\ ~RIsZero(ev.arg)

C17_SignFollowsScalar ==
    /\ \A i \in Instances :
          heap[i].cls \in DefiniteClasses => heap[i].p.sign \in {1, 0 - 1}
    /\ (/\ ev.op = "__init__"
        /\ ev.arg.cls \in DefiniteClasses
        /\ ev.arg.cls \in TriangularFactoredClasses
        /\ ev.arg.sign \notin {1, 0 - 1}) => ev.err = "ValueError"
    /\ ScaledDefinite =>
          /\ ev.err = "ok"
          /\ heap[ev.res.id].cls \in DefiniteClasses
          /\ heap[ev.res.id].p.sign = ev.before[ev.self].p.sign * RSign(ev.arg)
          /\ ev.before[ev.self].cls \in DenseDefiniteClasses =>
                /\ heap[ev.res.id].cls \in DenseDefiniteClasses
                /\ heap[ev.res.id].p.sign = 1 <=>
                      heap[ev.res.id].cls = "DensePositiveDefiniteMatrix"

\* a negative-definite dense matrix was multiplied by a negative scalar
C17_Witness ==
    /\ ScaledDefinite
    /\ ev.before[ev.self].cls = "DenseDefiniteMatrix"
    /\ ev.before[ev.self].p.sign = 0 - 1
    /\ ~RPos(ev.arg)
    /\ ev.err = "ok"
    /\ heap[ev.res.id].cls = "DensePositiveDefiniteMatrix"

(***************************************************************************)
(* C18: constructing a dense definite matrix makes no Cholesky call and    *)
(* succeeds whatever the definiteness flag.  The one Cholesky call, on     *)
(* sign * array, is made by the first of factor, inv, log_abs_det and sqrt *)
(* that finds the factor memo empty; no other operation on the matrix      *)
(* makes one.  When the call fails the LinAlgError reaches the caller, no  *)
(* value is returned, the memo stays empty and no instance changes.        *)
(***************************************************************************)
CholeskyCalls(log) == SelectSeq(log, LAMBDA e : e[1] = "cholesky")
SignedArray(o) == MatScale(Q(o.p.sign), o.p.array)

OnDenseDefinite ==
    /\ ev.op \notin {"none", "__init__"}
    /\ ev.before[ev.self].cls \in DenseDefiniteClasses

\* the operation reads self.factor, and the memo is empty
FactorFirstRead ==
    /\ OnDenseDefinite
    /\ \/ ev.op \in {"factor", "inv", "log_abs_det"}
       \/ ev.op = "sqrt" /\ ev.before[ev.self].cls = "DensePositiveDefiniteMatrix"
    /\ IsNone(ev.before[ev.self].c.factor)

C18_FactorisedOnFirstUse ==
    /\ (ev.op = "__init__" /\ ev.arg.cls \in DenseDefiniteClasses) =>
          /\ ev.err = "ok"
          /\ CholeskyCalls(ev.log) = <<>>
          /\ heap[ev.res.id].c.factor = ev.arg.factor
          /\ heap[ev.res.id].p.array = ev.arg.array
    /\ (OnDenseDefinite /\ ~FactorFirstRead) => CholeskyCalls(ev.log) = <<>>
    /\ FactorFirstRead =>
          LET o == ev.before[ev.self]
          IN  /\ CholeskyCalls(ev.log) = <<<<"cholesky", SignedArray(o)>>>>
              /\ ev.err = "ok" <=> PositiveDefiniteArray(SignedArray(o))
              /\ ev.err # "ok" =>
                    /\ ev.err = "LinAlgError"
                    /\ ev.res = None
                    /\ heap = ev.before
              /\ ev.err = "ok" =>
                    /\ ~IsNone(heap[ev.self].c.factor)
                    /\ heap[Get(heap[ev.self].c.factor)].cls = "TriangularMatrix"
                    /\ heap[Get(heap[ev.self].c.factor)].p.array =
                          Cholesky(SignedArray(o))
                    /\ heap[ev.self].p = o.p
                    /\ \A k \in 1..Len(ev.before) :
                          k # ev.self => heap[k] = ev.before[k]

\* a dense definite matrix built with the wrong flag was asked for its
\* inverse, and the factorisation failed
C18_Witness ==
    /\ FactorFirstRead
    /\ ev.op = "inv"
    /\ ev.err = "LinAlgError"
    /\ ~PositiveDefiniteArray(SignedArray(ev.before[ev.self]))
    /\ heap = ev.before

(***************************************************************************)
(* C19: the scalar of every PositiveScaledIdentityMatrix, every diagonal   *)
(* entry of every PositiveDiagonalMatrix and every eigenvalue of every     *)
(* EigendecomposedPositiveDefiniteMatrix is > 0: a construction on a value *)
(* that is not positive raises, and inv, sqrt and the product with a       *)
(* positive scalar return instances that satisfy the same condition.       *)
(***************************************************************************)
AllPositive(d) == \A k \in 1..Len(d) : RPos(d[k])

PositiveParameters(o) ==
    CASE o.cls = "PositiveScaledIdentityMatrix" -> RPos(o.p.scalar)
      [] o.cls = "PositiveDiagonalMatrix" -> AllPositive(o.p.diagonal)
      [] o.cls = "EigendecomposedPositiveDefiniteMatrix" -> AllPositive(o.p.eigval)
      [] OTHER -> TRUE

\* the values handed to the constructor of one of the three classes
ParametersGiven ==
    CASE ev.arg.cls = "PositiveScaledIdentityMatrix" -> <<ev.arg.scalar>>
      [] ev.arg.cls = "PositiveDiagonalMatrix" -> ev.arg.diagonal
      [] ev.arg.cls = "EigendecomposedPositiveDefiniteMatrix" -> ev.arg.eigval

C19_PositiveParametersKept ==
    /\ \A i \in Instances : PositiveParameters(heap[i])
    /\ (/\ ev.op = "__init__"
        /\ ev.arg.cls \in {"PositiveScaledIdentityMatrix", "PositiveDiagonalMatrix",
                           "EigendecomposedPositiveDefiniteMatrix"}
        /\ \E k \in 1..Len(ParametersGiven) : RLeqZero(ParametersGiven[k]))
          => ev.err = "ValueError"

(***************************************************************************)
(* C15: inv and sqrt of a positive-definite block-diagonal matrix over     *)
(* positive-definite blocks (identity, positive diagonal, triangular-      *)
(* factored, dense, eigendecomposed, positive-definite low-rank update)    *)
(* succeed and return a block-diagonal matrix with as many blocks, whose   *)
(* k-th block is the inverse, respectively a square root R with            *)
(* R @ R.T equal to the block, of the k-th block.                          *)
(***************************************************************************)
BlockwiseOperation ==
    /\ ev.op \in {"inv", "sqrt"}
    /\ ev.before[ev.self].cls = "PositiveDefiniteBlockDiagonalMatrix"
    /\ \A k \in 1..Len(ev.before[ev.self].p.blocks) :
          LET b == ev.before[ev.self].p.blocks[k]
          IN  /\ ev.before[b].cls \in PositiveDefiniteClasses
              /\ IsSymmetric(Dense(ev.before, b))
              /\ PositiveDefiniteArray(Dense(ev.before, b))

C15_BlockwiseInverseAndRoot ==
    BlockwiseOperation =>
        /\ ev.err = "ok"
        /\ heap[ev.res.id].cls \in BlockDiagonalClasses
        /\ LET old == ev.before[ev.self].p.blocks
               new == heap[ev.res.id].p.blocks
           IN  /\ Len(new) = Len(old)
               /\ \A k \in 1..Len(old) :
                     LET A == Dense(ev.before, old[k])
                         B == Dense(heap, new[k])
                     IN  IF ev.op = "inv" THEN MatMul(A, B) = Identity(Rows(A))
                         ELSE MatMul(B, Transpose(B)) = A

(***************************************************************************)
(* C20: a product chain (M1, ..., Mk) left-multiplies an array by applying *)
(* Mk, ..., M1 in this order and right-multiplies it by applying M1, ...,  *)
(* Mk, every factor once and through its own @, whose dimension check may  *)
(* stop the chain with ValueError; a factor that is itself a chain is      *)
(* applied in the same way when its turn comes.                            *)
(***************************************************************************)
ChainOrder(matrices, entry) ==
    IF entry = "_left_matrix_multiply" THEN Reversed(matrices) ELSE matrices

RECURSIVE AppliedLog(_, _, _)
\* the routines that applying the instances ids, in this order, dispatches to
AppliedLog(h, ids, entry) ==
    IF Len(ids) = 0 THEN <<>>
    ELSE <<<<entry, ids[1]>>>>
         \o (IF h[ids[1]].cls = "MatrixProduct"
             THEN AppliedLog(h, ChainOrder(h[ids[1]].p.matrices, entry), entry)
             ELSE <<>>)
         \o AppliedLog(h, Tail(ids), entry)

IsPrefix(s, t) == Len(s) <= Len(t) /\ SubSeq(t, 1, Len(s)) = s

RECURSIVE ChainSized(_, _)
ChainSized(h, i) ==
    /\ NoSize \notin {h[i].shape[1], h[i].shape[2]}
    /\ h[i].cls = "MatrixProduct" =>
          \A k \in 1..Len(h[i].p.matrices) : ChainSized(h, h[i].p.matrices[k])

\* a chain was multiplied with an ndarray, and its own dimension check passed
ChainApplied ==
    /\ ev.op \in {"__matmul__", "__rmatmul__"}
    /\ ev.before[ev.self].cls = "MatrixProduct"
    /\ ~IsMatrix(ev.arg)
    /\ ev.log # <<>>

C20_ChainAppliedInOrder ==
    ChainApplied =>
        LET entry == IF ev.op = "__matmul__" THEN "_left_matrix_multiply"
                     ELSE "_right_matrix_multiply"
            expected == AppliedLog(ev.before, <<ev.self>>, entry)
        IN  /\ heap = ev.before
            /\ ev.err = "ok" =>
                  /\ ev.log = expected
                  /\ ChainSized(ev.before, ev.self) =>
                        ev.res.array =
                            IF ev.op = "__matmul__"
                            THEN MatMul(Dense(ev.before, ev.self), ev.arg.array)
                            ELSE MatMul(ev.arg.array, Dense(ev.before, ev.self))
            /\ ev.err # "ok" =>
                  /\ ev.err = "ValueError"
                  /\ IsPrefix(ev.log, expected)
                  /\ Len(ev.log) < Len(expected)

\* a chain of at least two different factors left-multiplied an array
C20_Witness ==
    /\ ChainApplied
    /\ ev.op = "__matmul__"
    /\ ev.err = "ok"
    /\ Len(ev.before[ev.self].p.matrices) >= 2
    /\ ev.before[ev.self].p.matrices[1] # ev.before[ev.self].p.matrices[2]

(***************************************************************************)
(* Product chains given to MatrixProduct directly: the caller builds       *)
(* chains of one to MaxChainLen factors from the instances it holds        *)
(* (chains among them), and reads their arrays and transposes.             *)
(***************************************************************************)
MaxChainOps == 2
MaxChainLen == 3

RECURSIVE TuplesUpTo(_, _)
\* the tuples of 1..n elements of S
TuplesUpTo(S, n) ==
    IF n = 0 THEN {}
    ELSE {<<x>> : x \in S}
         \cup {Append(t, x) : t \in TuplesUpTo(S, n - 1), x \in S}

\* MatrixProduct(matrices)
ConstructChain ==
    \E matrices \in TuplesUpTo(Instances, MaxChainLen) :
        Do("__init__", 0, [cls |-> "MatrixProduct", matrices |-> matrices],
           AsMatrix(MatrixProduct(heap, matrices)))

\* factors for a chain: 2x2, 2x2 and 2x1
ChainPoolScene ==
    LET a == DiagonalMatrix(Empty, <<Q(2), Q(5)>>)
        b == TriangularMatrix(a.h, M2(2, 0, 1, 3), TRUE)
    IN  DenseRectangularMatrix(b.h, Col2(1, 2)).h

ChainInit == ObjInit({ChainPoolScene}, MaxChainOps)
ChainNext ==
    \/ ConstructChain
    \/ GetArray
    \/ GetT
    \/ MatMulInstances
SpecChain == ChainInit /\ [][ChainNext]_vars

RECURSIVE SizedChain(_, _)
\* every factor is sized, neighbours agree in their dimensions, and so within
\* every factor that is itself a chain
SizedChain(h, i) ==
    /\ NoSize \notin {h[i].shape[1], h[i].shape[2]}
    /\ h[i].cls = "MatrixProduct" =>
          LET m == h[i].p.matrices
          IN  /\ \A k \in 1..Len(m) : SizedChain(h, m[k])
              /\ \A k \in 1..(Len(m) - 1) : h[m[k]].shape[2] = h[m[k + 1]].shape[1]

\* the array of a well-formed chain was read
ChainArrayRead ==
    /\ ev.op = "array"
    /\ ev.before[ev.self].cls = "MatrixProduct"
    /\ SizedChain(ev.before, ev.self)

(***************************************************************************)
(* C21: reading the array of a product chain (M1, ..., Mk) of sized        *)
(* matrices, k >= 1, succeeds and gives the product of the factors' dense  *)
(* arrays in the order of the chain.                                       *)
(***************************************************************************)
C21_ChainArrayIsOrderedProduct ==
    ChainArrayRead =>
        /\ ev.err = "ok"
        /\ ev.res = Dense(ev.before, ev.self)

(***************************************************************************)
(* The LU pair on its own: dense square matrices with and without a        *)
(* factorisation and inverses holding one, transposed, inverted, scaled    *)
(* and asked for lu_and_piv and log_abs_det.                               *)
(***************************************************************************)
MaxLUOps == 2

\* needs a row interchange when factorised
B22 == M2(2, 1, 4, 5)

LUPoolScenes ==
    {DenseSquareMatrix(Empty, B22, None, None).h,
     DenseSquareMatrix(Empty, A22, Some(lu_factor(A22)), Some(FALSE)).h,
     DenseSquareMatrix(Empty, A22, Some(lu_factor(Transpose(A22))), Some(TRUE)).h,
     InverseLUFactoredSquareMatrix(Empty, A22, lu_factor(A22), FALSE).h,
     InverseLUFactoredSquareMatrix(Empty, B22, lu_factor(Transpose(B22)), TRUE).h}

LUInit == ObjInit(LUPoolScenes, MaxLUOps)
LUNext ==
    \/ GetT
    \/ GetInv
    \/ ScalarMul
    \/ GetLuAndPiv
    \/ GetLogAbsDet
SpecLU == LUInit /\ [][LUNext]_vars

\* the instance holds a factorisation and its flag
Factored(h, i) ==
    \/ h[i].cls = "InverseLUFactoredSquareMatrix"
    \/ /\ h[i].cls = "DenseSquareMatrix"
       /\ ~IsNone(h[i].c.lu_and_piv)
       /\ ~IsNone(h[i].c.lu_transposed)
FactorsOf(h, i) ==
    IF h[i].cls = "DenseSquareMatrix" THEN Get(h[i].c.lu_and_piv)
    ELSE h[i].p.inv_lu_and_piv
FlagOf(h, i) ==
    IF h[i].cls = "DenseSquareMatrix" THEN Get(h[i].c.lu_transposed)
    ELSE h[i].p.inv_lu_transposed
\* the array the factorisation is held for: the array, or that of the inverse
FactoredArrayOf(h, i) ==
    IF h[i].cls = "DenseSquareMatrix" THEN h[i].p.array ELSE h[i].p.inv_array
StrictlyLower(A) == MatSub(A, Triu(A))

\* T, inv or a scalar product of a factorised instance was taken
FactoredDerivation ==
    /\ ev.op \in {"T", "inv", "__mul__"}
    /\ Factored(ev.before, ev.self)

(***************************************************************************)
(* C22: an operation on a DenseSquareMatrix or inverse that holds an LU    *)
(* factorisation never calls the LU backend; its T, inv and product with a *)
(* nonzero scalar hold a factorisation again, with the same pivots and the *)
(* same packed LU (for a scalar product, up to its upper triangle), which  *)
(* is the factorisation of the array they hold.                            *)
(***************************************************************************)
C22_FactorisationShared ==
    /\ (ev.op # "none" /\ Factored(ev.before, ev.self)) =>
          Factorizations(ev.log) = {}
    /\ FactoredDerivation =>
          IF ev.op = "__mul__" /\ RIsZero(ev.arg)
          THEN ev.err = "NotImplementedError"
          ELSE /\ ev.err = "ok"
               /\ Factored(heap, ev.res.id)
               /\ FactorsOf(heap, ev.res.id).piv = FactorsOf(ev.before, ev.self).piv
               /\ StrictlyLower(FactorsOf(heap, ev.res.id).lu)
                     = StrictlyLower(FactorsOf(ev.before, ev.self).lu)
               /\ ev.op \in {"T", "inv"} =>
                     FactorsOf(heap, ev.res.id) = FactorsOf(ev.before, ev.self)
               /\ FactoredArrayOf(heap, ev.res.id) =
                     IF FlagOf(heap, ev.res.id)
                     THEN Transpose(LUArray(FactorsOf(heap, ev.res.id)))
                     ELSE LUArray(FactorsOf(heap, ev.res.id))

\* a matrix factorised on demand was inverted or transposed, and the result
\* scaled
C22_Witness ==
    /\ FactoredDerivation
    /\ ev.op = "__mul__"
    /\ ev.err = "ok"
    /\ heap[1].cls = "DenseSquareMatrix"
    /\ heap[1].p.array = B22
    /\ ev.prev.op \in {"T", "inv"}
    /\ ev.prev.self = 1
    /\ ev.self = ev.prev.res.id

(***************************************************************************)
(* C23: the product of a factorised DenseSquareMatrix with a scalar a      *)
(* holds the packed LU with its upper triangle (diagonal included)         *)
(* multiplied by a, that of an InverseLUFactoredSquareMatrix with it       *)
(* divided by a; the strictly-lower entries, the pivots and the flag are   *)
(* kept.  Hence (a * M).inv and (1 / a) * M.inv hold the same array,       *)
(* packed LU, pivots and flag.                                             *)
(***************************************************************************)
ScaleUpper(a, lu) == MatAdd(StrictlyLower(lu), MatScale(a, Triu(lu)))
NonzeroScalars == {a \in Scalars : ~RIsZero(a)}

\* a factorised instance was multiplied by a nonzero scalar
FactoredScaled ==
    /\ ev.op = "__mul__"
    /\ Factored(ev.before, ev.self)
    /\ ~RIsZero(ev.arg)

\* what the inverse of a * M holds, M the factorised DenseSquareMatrix h[i]
ScaledInverseOf(h, i, a) ==
    [inv_array |-> MatScale(a, h[i].p.array),
     inv_lu_and_piv |-> [lu |-> ScaleUpper(a, FactorsOf(h, i).lu),
                         piv |-> FactorsOf(h, i).piv],
     inv_lu_transposed |-> FlagOf(h, i)]

\* (a * M).inv was taken: M scaled, then the product inverted
ScaledThenInverted ==
    /\ ev.op = "inv"
    /\ ev.prev.op = "__mul__"
    /\ ev.prev.err = "ok"
    /\ ev.self = ev.prev.res.id
    /\ ev.before[ev.prev.self].cls = "DenseSquareMatrix"
    /\ Factored(ev.before, ev.prev.self)

\* s * M.inv was taken: M inverted, then the inverse scaled
InvertedThenScaled ==
    /\ FactoredScaled
    /\ ev.prev.op = "inv"
    /\ ev.self = ev.prev.res.id
    /\ ev.before[ev.prev.self].cls = "DenseSquareMatrix"

C23_OnlyUpperTriangleRescaled ==
    /\ FactoredScaled =>
          LET by == IF ev.before[ev.self].cls = "DenseSquareMatrix" THEN ev.arg
                    ELSE RDiv(ROne, ev.arg)
          IN  /\ ev.err = "ok"
              /\ heap[ev.res.id].cls = ev.before[ev.self].cls
              /\ FactorsOf(heap, ev.res.id).lu
                     = ScaleUpper(by, FactorsOf(ev.before, ev.self).lu)
              /\ FactorsOf(heap, ev.res.id).piv = FactorsOf(ev.before, ev.self).piv
              /\ FlagOf(heap, ev.res.id) = FlagOf(ev.before, ev.self)
              /\ FactoredArrayOf(heap, ev.res.id)
                     = MatScale(by, FactoredArrayOf(ev.before, ev.self))
    /\ ScaledThenInverted =>
          /\ ev.err = "ok"
          /\ heap[ev.res.id].cls = "InverseLUFactoredSquareMatrix"
          /\ \E a \in NonzeroScalars :
                /\ ev.before[ev.self].p.array
                       = MatScale(a, ev.before[ev.prev.self].p.array)
                /\ heap[ev.res.id].p = ScaledInverseOf(ev.before, ev.prev.self, a)
    /\ InvertedThenScaled =>
          /\ heap[ev.res.id].cls = "InverseLUFactoredSquareMatrix"
          /\ heap[ev.res.id].p
                 = ScaledInverseOf(ev.before, ev.prev.self, RDiv(ROne, ev.arg))

\* the inverse of a matrix with a nontrivial lower factor was scaled
C23_Witness ==
    /\ InvertedThenScaled
    /\ ev.err = "ok"
    /\ ~RIsZero(FactorsOf(heap, ev.res.id).lu[2][1])
    /\ ev.arg # ROne

(***************************************************************************)
(* Block matrices of up to MaxBlocks blocks applied to arrays: the caller  *)
(* stacks the blocks it holds along the diagonal, in a row or in a column  *)
(* and multiplies the instances with arrays of every height and width up   *)
(* to MaxOperandDim, from either side.                                     *)
(***************************************************************************)
MaxSplitOps == 2
MaxBlocks == 3
MaxOperandDim == 6

\* an n x m array whose entries are all different
Ramp(n, m) == LET e(i, j) == Q(10 * i + j) IN Mat(n, m, e)
LeftOperands == {Ramp(n, m) : n \in 1..MaxOperandDim, m \in 1..2}
RightOperands == {Ramp(m, n) : n \in 1..MaxOperandDim, m \in 1..2}

\* SquareBlockDiagonalMatrix(blocks), BlockRowMatrix(blocks) and
\* BlockColumnMatrix(blocks)
ConstructBlockMatrix ==
    \E blocks \in TuplesUpTo(Instances, MaxBlocks) :
        \/ Do("__init__", 0, [cls |-> "SquareBlockDiagonalMatrix", blocks |-> blocks],
              AsMatrix(SquareBlockDiagonalMatrix(heap, blocks)))
        \/ Do("__init__", 0, [cls |-> "BlockRowMatrix", blocks |-> blocks],
              AsMatrix(BlockRowMatrix(heap, blocks)))
        \/ Do("__init__", 0, [cls |-> "BlockColumnMatrix", blocks |-> blocks],
              AsMatrix(BlockColumnMatrix(heap, blocks)))

\* A @ x
MatMulOperand ==
    \E i \in Instances, x \in LeftOperands :
        Do("__matmul__", i, Arr(x), Invoke(heap, i, "__matmul__", Arr(x)))

\* x @ A
RMatMulOperand ==
    \E i \in Instances, x \in RightOperands :
        Do("__rmatmul__", i, Arr(x), Invoke(heap, i, "__rmatmul__", Arr(x)))

\* blocks of 2x2, 1x1 and 2x1
SplitPoolScene ==
    LET a == DiagonalMatrix(Empty, <<Q(2), Q(5)>>)
        b == TriangularMatrix(a.h, M1(3), TRUE)
    IN  DenseRectangularMatrix(b.h, Col2(1, 2)).h

SplitInit == ObjInit({SplitPoolScene}, MaxSplitOps)
SplitNext ==
    \/ ConstructBlockMatrix
    \/ MatMulOperand
    \/ RMatMulOperand
SpecSplit == SplitInit /\ [][SplitNext]_vars

BlockMatrixClasses ==
    BlockDiagonalClasses \cup {"BlockRowMatrix", "BlockColumnMatrix"}

\* a block matrix multiplied an array that passed its own dimension check
BlockMatrixApplied ==
    /\ ev.op \in {"__matmul__", "__rmatmul__"}
    /\ ev.before[ev.self].cls \in BlockMatrixClasses
    /\ ~IsMatrix(ev.arg)
    /\ IF ev.op = "__matmul__"
       THEN Rows(ev.arg.array) = ev.before[ev.self].shape[2]
       ELSE Cols(ev.arg.array) = ev.before[ev.self].shape[1]

\* the multiplications that split the operand, and the axis they split
SplitsOperand ==
    \/ ev.before[ev.self].cls \in BlockDiagonalClasses
    \/ ev.before[ev.self].cls = "BlockRowMatrix" /\ ev.op = "__matmul__"
    \/ ev.before[ev.self].cls = "BlockColumnMatrix" /\ ev.op = "__rmatmul__"
\* the dimension of block k the split is made for
SplitDim(h, i, k) ==
    h[h[i].p.blocks[k]].shape[IF h[i].cls = "BlockColumnMatrix" THEN 1 ELSE 2]
PartLen(part) == IF ev.op = "__matmul__" THEN Rows(part) ELSE Cols(part)

(***************************************************************************)
(* C24: a block-diagonal, block-row or block-column matrix multiplying an  *)
(* array of fitting dimension succeeds with the product of its dense       *)
(* value; where the operand is split, it is split into one part per block, *)
(* in block order, the k-th as long as the k-th block's dimension, the     *)
(* parts together being the operand.                                       *)
(***************************************************************************)
C24_SplitsMatchBlocks ==
    BlockMatrixApplied =>
        /\ ev.err = "ok"
        /\ ev.res.array =
              IF ev.op = "__matmul__"
              THEN MatMul(Dense(ev.before, ev.self), ev.arg.array)
              ELSE MatMul(ev.arg.array, Dense(ev.before, ev.self))
        /\ SplitsOperand =>
              /\ Len(ev.log) >= 2
              /\ ev.log[2][1] = "np.split"
              /\ LET parts == ev.log[2][2]
                     blocks == ev.before[ev.self].p.blocks
                 IN  /\ Len(parts) = Len(blocks)
                     /\ \A k \in 1..Len(parts) :
                           PartLen(parts[k]) = SplitDim(ev.before, ev.self, k)
                     /\ StackArrays(parts, IF ev.op = "__matmul__" THEN "column"
                                           ELSE "row") = ev.arg.array

\* a row of three blocks of widths 2, 1 and 2 multiplied an array
C24_Witness ==
    /\ BlockMatrixApplied
    /\ SplitsOperand
    /\ ev.err = "ok"
    /\ ev.before[ev.self].cls = "BlockRowMatrix"
    /\ ev.before[ev.self].p.splits = <<2, 3>>


(***************************************************************************)
(* C25: a DenseSymmetricMatrix holding an eigvec or an eigval supplied at  *)
(* construction returns that value from the matching accessor, keeps it,   *)
(* and the accessor of a held component does not invoke eigh; no accessor  *)
(* invokes eigh more than once.                                            *)
(***************************************************************************)
EighCalls(log) == {k \in 1..Len(log) : log[k][1] = "eigh"}

HeldEigenRead ==
    /\ ev.op \in {"eigval", "eigvec"}
    /\ ev.before[ev.self].cls = "DenseSymmetricMatrix"
    /\ ~IsNone(ev.before[ev.self].c[ev.op])

C25_SuppliedEigenReturned ==
    /\ (ev.op \in {"eigval", "eigvec"}
            /\ ev.before[ev.self].cls = "DenseSymmetricMatrix")
        => Cardinality(EighCalls(ev.log)) <= 1
    /\ HeldEigenRead =>
        /\ ev.err = "ok"
        /\ ev.res = IF ev.op = "eigval" THEN Get(ev.before[ev.self].c.eigval)
                    ELSE Mx(Get(ev.before[ev.self].c.eigvec))
        /\ heap[ev.self].c[ev.op] = ev.before[ev.self].c[ev.op]
        /\ EighCalls(ev.log) = {}


(***************************************************************************)
(* C26: a capacitance matrix handed to a new low-rank update instance by   *)
(* inv, T or a scalar multiplication equals the value the new instance's   *)
(* own lazy computation, inner.inv + right @ (square.inv @ left), gives.   *)
(***************************************************************************)
Prepopulated ==
    /\ lrOut.op \in {"inv", "T", "scalar_multiply"}
    /\ ~IsNone(lrOut.obj.capacitance)
    /\ Invertible(lrOut.obj.square_matrix)
    /\ Invertible(lrOut.obj.inner_square_matrix)

C26_PrepopulatedIsLazyValue ==
    Prepopulated =>
        Get(lrOut.obj.capacitance) = ComputeCapacitance(lrOut.obj)


(***************************************************************************)
(* Nesting: the caller builds block-diagonal matrices of the three kinds   *)
(* over the instances it holds, block-diagonal ones included, scales,      *)
(* inverts and transposes.                                                 *)
(***************************************************************************)
MaxNestOps == 2
\* the caller builds first: its first MaxNestBuilds operations may construct
MaxNestBuilds == 1

\* SquareBlockDiagonalMatrix(blocks), SymmetricBlockDiagonalMatrix(blocks) and
\* PositiveDefiniteBlockDiagonalMatrix(blocks)
ConstructBlockDiagonal ==
    /\ nops < MaxNestBuilds
    /\ \E blocks \in BlockTuples :
         \/ Do("__init__", 0,
               [cls |-> "SquareBlockDiagonalMatrix", blocks |-> blocks],
               AsMatrix(SquareBlockDiagonalMatrix(heap, blocks)))
         \/ Do("__init__", 0,
               [cls |-> "SymmetricBlockDiagonalMatrix", blocks |-> blocks],
               AsMatrix(SymmetricBlockDiagonalMatrix(heap, blocks)))
         \/ Do("__init__", 0,
               [cls |-> "PositiveDefiniteBlockDiagonalMatrix", blocks |-> blocks],
               AsMatrix(PositiveDefiniteBlockDiagonalMatrix(heap, blocks)))

\* symmetric instances that are not positive definite: leaves, a symmetric
\* block-diagonal matrix over them and a symmetric low-rank update
SymmetricNestScene ==
    Then(DenseSymmetricMatrix(Empty, Diag31, None, None), LAMBDA a :
    Then(DiagonalMatrix(a.h, <<Q(2), Q(0 - 3)>>), LAMBDA b :
    Then(SymmetricBlockDiagonalMatrix(b.h, <<a.v, b.v>>), LAMBDA c :
    Then(DenseRectangularMatrix(c.h, Col2(3, 0)), LAMBDA f :
    Then(IdentityMatrix(f.h, 1), LAMBDA k :
        NewSymmetricLowRankUpdateMatrix(k.h, SymLR, f.v, b.v, Some(k.v),
                                        None, 1).h)))))

\* square instances that are not symmetric and a block-diagonal matrix of them
SquareNestScene ==
    LET a == TriangularMatrix(Empty, L22, TRUE)
        b == DenseSquareMatrix(a.h, M1(3), None, None)
        c == ScaledIdentityMatrix(b.h, Q(0 - 4), 1)
    IN  SquareBlockDiagonalMatrix(c.h, <<a.v, b.v>>).h

NestScenes ==
    {PositiveScene, BlockDiagonalScene, LowRankBlockScene, SymmetricNestScene,
     SquareNestScene}

NestInit == ObjInit(NestScenes, MaxNestOps)
NestNext ==
    \/ ConstructBlockDiagonal
    \/ DefiniteScalarMul
    \/ DefiniteInv
    \/ GetT
SpecNest == NestInit /\ [][NestNext]_vars

(***************************************************************************)
(* C27: the product of a positive-definite-typed matrix with a positive    *)
(* scalar is positive-definite typed, its product with a negative scalar   *)
(* is not, and neither product raises.                                     *)
(***************************************************************************)
PositiveDefiniteScaled ==
    /\ ev.op = "__mul__"
    /\ ev.before[ev.self].cls \in PositiveDefiniteClasses
    /\ ~RIsZero(ev.arg)

C27_ScalingKeepsOrDropsDefiniteness ==
    PositiveDefiniteScaled =>
        /\ ev.err = "ok"
        /\ heap[ev.res.id].cls \in PositiveDefiniteClasses <=> RPos(ev.arg)


(***************************************************************************)
(* C28: inv of a positive-definite-typed matrix is positive-definite       *)
(* typed, inv of a symmetric matrix is a matrix whose T is itself, and inv *)
(* of a symmetric or positive-definite block-diagonal matrix or low-rank   *)
(* update does not raise the ValueError of a constructor's check.          *)
(***************************************************************************)
SelfTransposeClasses == SymmetricClasses \cup {"SymmetricBlockDiagonalMatrix"}

Inverted ==
    /\ ev.op = "inv"
    /\ ev.before[ev.self].cls \in SelfTransposeClasses

RebuiltByInv ==
    {"SymmetricBlockDiagonalMatrix", "PositiveDefiniteBlockDiagonalMatrix",
     SymLR, PosDefLR}

C28_InvKeepsCapability ==
    Inverted =>
        /\ ev.before[ev.self].cls \in RebuiltByInv => ev.err # "ValueError"
        /\ ev.err = "ok" =>
            /\ Invoke(heap, ev.res.id, "T", None).v = ev.res.id
            /\ ev.before[ev.self].cls \in PositiveDefiniteClasses
                  => heap[ev.res.id].cls \in PositiveDefiniteClasses

C28_Witness ==
    /\ Inverted
    /\ ev.err = "ok"
    /\ ev.before[ev.self].cls = "PositiveDefiniteBlockDiagonalMatrix"
    /\ \E k \in 1..Len(heap[ev.res.id].p.blocks) :
          heap[heap[ev.res.id].p.blocks[k]].cls = PosDefLR


(***************************************************************************)
(* C29: a block-diagonal matrix of each kind is accepted as a block by the *)
(* constructor of its own kind: constructing a square, symmetric or        *)
(* positive-definite block-diagonal matrix over sized blocks that are      *)
(* block-diagonal matrices of that kind succeeds.                          *)
(***************************************************************************)
NestedOfOwnKind ==
    /\ ev.op = "__init__"
    /\ ev.arg.cls \in BlockDiagonalClasses
    /\ \A k \in 1..Len(ev.arg.blocks) :
          ev.before[ev.arg.blocks[k]].cls = ev.arg.cls

C29_BlockDiagonalNests ==
    NestedOfOwnKind =>
        /\ ev.err = "ok"
        /\ heap[ev.res.id].cls = ev.arg.cls
        /\ heap[ev.res.id].p.blocks = ev.arg.blocks


(***************************************************************************)
(* C30: for an identity or scaled identity matrix I constructed without a  *)
(* size and a sized matrix M, both I @ M and M @ I succeed and give a      *)
(* product chain.                                                          *)
(***************************************************************************)
Unsized(o) ==
    /\ o.cls \in {"IdentityMatrix", "ScaledIdentityMatrix",
                  "PositiveScaledIdentityMatrix"}
    /\ o.shape = <<NoSize, NoSize>>
Sized(o) == o.shape[1] # NoSize /\ o.shape[2] # NoSize

UnsizedTimesSized ==
    /\ ev.op = "__matmul__"
    /\ IsMatrix(ev.arg)
    /\ Unsized(ev.before[ev.self])
    /\ Sized(ev.before[ev.arg.id])

SizedTimesUnsized ==
    /\ ev.op = "__matmul__"
    /\ IsMatrix(ev.arg)
    /\ Sized(ev.before[ev.self])
    /\ Unsized(ev.before[ev.arg.id])

C30_UnknownDimensionCompatible ==
    (UnsizedTimesSized \/ SizedTimesUnsized) =>
        /\ ev.err = "ok"
        /\ heap[ev.res.id].cls = "MatrixProduct"

====
